---- MODULE Spec2Model ----
(***************************************************************************)
(* Model of the experiment queue / scheduler of                            *)
(* backend/src/experiment_queue.py (class ExperimentQueue), its job and    *)
(* batch entities, the scheduler loop (_queue_worker), the per-job         *)
(* execution threads (_start_experiment.run_experiment) and the API calls. *)
(*                                                                         *)
(* Every `with self._lock:` block of the source is one atomic action.      *)
(* Reads and writes of self.status and len(self.running_experiments) made  *)
(* outside the lock are separate steps of the thread that makes them.      *)
(* The callers of the queue are the HTTP handlers of api/experiments.py and *)
(* api/queue.py.  They are `async def` functions that call the queue       *)
(* synchronously, so API calls never overlap one another; they do overlap  *)
(* the scheduler loops and the job threads.  The two submitting handlers   *)
(* call start_queue() themselves when they find the queue Stopped.         *)
(*                                                                         *)
(* For the queue a Runner call is a thread that is inside the Runner and    *)
(* then returns or raises (runner_returns, runner_raises).  The steps the   *)
(* UnifiedExperimentRunner takes inside that call, which touch only its own *)
(* callback field and the jobs' progress values, are the actions of         *)
(* SpecRunner.                                                              *)
(***************************************************************************)
EXTENDS Integers, Sequences, FiniteSets, TLC

\* ---------------------------------------------------------------- bounds
MaxJobs == 2            \* job objects ever created
MaxBatches == 1         \* batches ever registered
MaxBatchSize == 2       \* jobs submitted inside one add_batch call
MaxPriority == 2        \* priorities range over 1..MaxPriority
MaxWorkers == 2         \* scheduler threads alive at the same time
MaxConcurrentBound == 2 \* max_concurrent is drawn from 1..MaxConcurrentBound
MaxApiCalls == 3        \* API calls made on the queue in one behaviour
MaxRows == 1            \* rows of the largest dataset a job processes
MaxTurns == 4          \* max_turns is drawn from 0..MaxTurns
MaxFailureRounds == 2  \* rounds of a conversation whose backends may raise
MaxModels == 2         \* length of the model list of a single-model conversation
MaxLines == 3          \* lines of a response handed to the metric extraction

JobIds == 1..MaxJobs
BatchIds == 1..MaxBatches
Priorities == 1..MaxPriority
Workers == 1..MaxWorkers
ErrMsgs == {"e1"}        \* str(e) of the exceptions the Runner raises
\* the percentages _process_dataset reports: 0, int((row_idx + 1) / total_rows * 100)
\* per row, 100
Percents == {0, 100} \cup UNION {{(i * 100) \div n : i \in 1..n} : n \in 1..MaxRows}

\* ------------------------------------------------------------- constants
None == 0                \* Python None for an id-valued slot
NoBatch == 0             \* a batch_id that names no registered batch
NoError == "None"        \* error_message: Optional[str] = None
NotSent == -1            \* no progress percentage reported yet
NoSnapshot == <<>>       \* no get_batch_status call made yet

\* ExperimentStatus / QueueStatus
ExperimentStatus == {"pending", "running", "completed", "failed", "cancelled"}
QueueStatus == {"stopped", "running", "paused"}

VARIABLES
    experiments,          \* self.experiments: list of job ids
    jobs,                 \* the QueuedExperiment objects, by id (objects outlive the list)
    batches,              \* self.batches: batch id -> ExperimentBatch
    running_experiments,  \* self.running_experiments: set of keys of the dict
    status,               \* self.status
    max_concurrent,       \* self.max_concurrent
    experiment_runner,    \* self.experiment_runner is not None
    worker_thread,        \* self.worker_thread: latest scheduler thread, or None
    workers,              \* scheduler threads: position in _queue_worker and next_experiment
    threads,              \* per job id: number of run_experiment threads inside the Runner
    api_pc,               \* position of the (serialised) API caller inside its handler
    n_calls,              \* number of API calls made so far
    last_remove,          \* whether remove_experiment was called, and what the latest call returned
    n_removed,            \* number of remove_experiment calls that returned True
    summaries,            \* per batch id: number of _generate_batch_summary invocations
    lock,                 \* self._lock: None when free, else the job whose thread holds it
    stops,                \* number of stop_queue calls since the latest other API call
    summary_file,         \* per batch id: whether batch_summary.json was written
    batch_snapshot,       \* the dict get_batch_status is building or has returned
    runs,                 \* per job id: the run_experiment threads' positions inside the Runner
    progress_callback,    \* the Runner's self.progress_callback: the job it reports to
    args,                 \* the arguments of the run_conversation call
    engine_pc,            \* the function the conversation engine is in, or how the call ended
    exception,            \* the exception run_conversation raised to its caller, or "None"
    turn_num,             \* loop variable of the outer loop: the round
    model_idx,            \* position of the inner loop in the model list
    turns,                \* the local list turns
    conversation_history, \* the local list conversation_history
    model_calls,          \* the _call_model invocations so far, with their prompts
    result,               \* the ConversationResult returned to the caller
    parsed                \* the latest direct _extract_metrics call and what it returned

queue_vars == <<experiments, jobs, batches, running_experiments, status, max_concurrent,
                experiment_runner, worker_thread, workers, threads, api_pc, n_calls,
                last_remove, n_removed, summaries, lock, stops, summary_file, batch_snapshot,
                runs, progress_callback>>

engine_vars == <<args, engine_pc, exception, turn_num, model_idx, turns,
                 conversation_history, model_calls, result, parsed>>

vars == <<experiments, jobs, batches, running_experiments, status, max_concurrent,
          experiment_runner, worker_thread, workers, threads, api_pc, n_calls,
          last_remove, n_removed, summaries, lock, stops, summary_file, batch_snapshot,
          runs, progress_callback,
          args, engine_pc, exception, turn_num, model_idx, turns,
          conversation_history, model_calls, result, parsed>>

\* ------------------------------------------------------------- entities
QueuedExperiment(b, p, t) ==
    [batch_id |-> b, priority |-> p, status |-> "pending", created_at |-> t,
     progress |-> 0, error_message |-> NoError]

ExperimentBatch(ids) ==
    [experiments |-> ids, total_experiments |-> Len(ids),
     completed_experiments |-> 0, failed_experiments |-> 0]

Range(s) == {s[i] : i \in 1..Len(s)}

\* ExperimentBatch.get_status
get_status(batch) ==
    IF batch.failed_experiments > 0
       /\ batch.completed_experiments + batch.failed_experiments = batch.total_experiments
    THEN "completed_with_failures"
    ELSE IF batch.completed_experiments = batch.total_experiments
    THEN "completed"
    ELSE IF \E j \in Range(batch.experiments) : jobs[j].status = "running"
    THEN "running"
    ELSE IF \E j \in Range(batch.experiments) : jobs[j].status = "pending"
    THEN "pending"
    ELSE "unknown"

\* no run_conversation call yet, and no result
NoArgs ==
    [article_text |-> <<>>, models |-> <<>>, experiment_type |-> "", adversarial |-> FALSE,
     context_strategy |-> "", max_turns |-> 0, clients |-> {}]
NoResult ==
    [article_id |-> "", experiment_type |-> "", models |-> <<>>, adversarial |-> FALSE,
     turns |-> <<>>, final_metrics |-> <<>>, agreement_scores |-> <<>>,
     influence_scores |-> <<>>]

\* no direct _extract_metrics call yet
NoParse == [response |-> <<>>, expected_fields |-> <<>>, metrics |-> <<>>]

\* ------------------------------------------------------------------ Init
Init ==
    /\ experiments = <<>>
    /\ jobs = <<>>
    /\ batches = <<>>
    /\ running_experiments = {}
    /\ status = "stopped"
    /\ max_concurrent \in 1..MaxConcurrentBound
    /\ experiment_runner = TRUE   \* initialize_queue injects the Runner at startup
    /\ worker_thread = None
    /\ workers = [w \in Workers |-> [pc |-> "dead", next_experiment |-> None]]
    /\ threads = <<>>
    /\ api_pc = "idle"
    /\ n_calls = 0
    /\ last_remove = [called |-> FALSE, ok |-> FALSE]
    /\ n_removed = 0
    /\ summaries = <<>>
    /\ lock = None
    /\ stops = 0
    /\ summary_file = <<>>
    /\ batch_snapshot = NoSnapshot
    /\ runs = <<>>
    /\ progress_callback = None
    /\ args = NoArgs
    /\ engine_pc = "idle"
    /\ exception = "None"
    /\ turn_num = 0
    /\ model_idx = 0
    /\ turns = <<>>
    /\ conversation_history = <<>>
    /\ model_calls = <<>>
    /\ result = NoResult
    /\ parsed = NoParse

\* datetime.now() as a logical clock: a reading is equal to or later than the
\* latest earlier reading
Clock == IF jobs = <<>> THEN 0 ELSE jobs[Len(jobs)].created_at
Ticks == {0, 1}
\* a clock fine enough to tell any two creations apart
Later == {1}

\* --------------------------------------------------------- add_experiment
\* the handlers' `if queue.status.value == "stopped": queue.start_queue()`
AfterSubmit == IF status = "stopped" THEN "autostart" ELSE "idle"

\* b is the id of a registered batch, or a batch_id that names no batch (batch ids
\* are fresh uuid4 values, so no later add_batch registers it)
\* tick: whether the clock advanced since the latest earlier creation
add_experiment(b, p, tick) ==
    /\ lock = None
    /\ api_pc = "idle"
    /\ b \in {NoBatch} \cup DOMAIN batches
    /\ n_calls < MaxApiCalls
    /\ Len(jobs) < MaxJobs
    /\ LET id == Len(jobs) + 1
           t == Clock + tick
       IN /\ n_calls' = n_calls + 1
          /\ jobs' = Append(jobs, QueuedExperiment(b, p, t))
          /\ threads' = Append(threads, 0)
          /\ experiments' = Append(experiments, id)
          /\ batches' = IF b \in DOMAIN batches
                        THEN [batches EXCEPT
                                ![b].experiments = Append(@, id),
                                ![b].total_experiments = @ + 1]
                        ELSE batches
    /\ api_pc' = AfterSubmit
    /\ stops' = 0
    /\ runs' = Append(runs, <<>>)
    /\ UNCHANGED <<running_experiments, status, max_concurrent, experiment_runner,
                   worker_thread, workers, last_remove, n_removed, summaries,
                   lock, summary_file, batch_snapshot, progress_callback,
                   engine_vars>>

\* -------------------------------------------------------------- add_batch
\* ps: the priorities of the batch's jobs; ticks: clock ticks between their creations
add_batch(ps, ticks) ==
    /\ lock = None
    /\ api_pc = "idle"
    /\ n_calls < MaxApiCalls
    /\ Len(batches) < MaxBatches
    /\ Len(jobs) + Len(ps) <= MaxJobs
    /\ LET b == Len(batches) + 1
           k == Len(ps)
           base == Len(jobs)
           at(i) == Clock + Cardinality({m \in 1..i : ticks[m] = 1})
           ids == [i \in 1..k |-> base + i]
       IN /\ n_calls' = n_calls + 1
          /\ jobs' = jobs \o [i \in 1..k |-> QueuedExperiment(b, ps[i], at(i))]
          /\ threads' = threads \o [i \in 1..k |-> 0]
          /\ experiments' = experiments \o ids
          /\ batches' = Append(batches, ExperimentBatch(ids))
          /\ summaries' = Append(summaries, 0)
    /\ api_pc' = AfterSubmit
    /\ stops' = 0
    /\ runs' = runs \o [i \in 1..Len(ps) |-> <<>>]
    /\ summary_file' = Append(summary_file, FALSE)
    /\ UNCHANGED <<running_experiments, status, max_concurrent, experiment_runner,
                   worker_thread, workers, last_remove, n_removed,
                   lock, batch_snapshot, progress_callback,
                   engine_vars>>

\* ------------------------------------------------------ remove_experiment
\* self.experiments.pop(i) for the first i with exp.id == experiment_id
PopFirst(s, id) ==
    LET i == CHOOSE k \in 1..Len(s) : s[k] = id /\ \A m \in 1..(k - 1) : s[m] # id
    IN SubSeq(s, 1, i - 1) \o SubSeq(s, i + 1, Len(s))

NotThisId(id) == [e \in JobIds |-> e # id]

\* RemoveFound with the batch's list filtered and its total left as it was
RemoveFound_keeps_total(id) ==
    /\ experiments' = PopFirst(experiments, id)
    /\ IF id \in running_experiments
       THEN /\ running_experiments' = running_experiments \ {id}
            /\ jobs' = [jobs EXCEPT ![id].status = "cancelled"]
       ELSE UNCHANGED <<running_experiments, jobs>>
    /\ batches' = IF jobs[id].batch_id \in DOMAIN batches
                  THEN [batches EXCEPT
                          ![jobs[id].batch_id].experiments =
                              SelectSeq(@, LAMBDA e : NotThisId(id)[e])]
                  ELSE batches
    /\ last_remove' = [called |-> TRUE, ok |-> TRUE]
    /\ n_removed' = n_removed + 1

\* remove_experiment once the job was found in the list: cancel it if it is
\* running, take it out of its batch, return True
RemoveFound(id) ==
    /\ experiments' = PopFirst(experiments, id)
    /\ IF id \in running_experiments
       THEN /\ running_experiments' = running_experiments \ {id}
            /\ jobs' = [jobs EXCEPT ![id].status = "cancelled"]
       ELSE UNCHANGED <<running_experiments, jobs>>
    /\ batches' = IF jobs[id].batch_id \in DOMAIN batches
                  THEN [batches EXCEPT
                          ![jobs[id].batch_id].experiments =
                              SelectSeq(@, LAMBDA e : NotThisId(id)[e]),
                          ![jobs[id].batch_id].total_experiments = @ - 1]
                  ELSE batches
    /\ last_remove' = [called |-> TRUE, ok |-> TRUE]
    /\ n_removed' = n_removed + 1

\* remove_experiment with the running-set cancellation moved in front of the
\* lookup in the job list
remove_experiment_cancel_first(id) ==
    /\ lock = None
    /\ api_pc = "idle"
    /\ n_calls < MaxApiCalls
    /\ n_calls' = n_calls + 1
    /\ IF id \notin Range(experiments)
       THEN /\ last_remove' = [called |-> TRUE, ok |-> FALSE]
            /\ IF id \in running_experiments
               THEN /\ running_experiments' = running_experiments \ {id}
                    /\ jobs' = [jobs EXCEPT ![id].status = "cancelled"]
               ELSE UNCHANGED <<running_experiments, jobs>>
            /\ UNCHANGED <<experiments, batches, n_removed>>
       ELSE RemoveFound(id)
    /\ stops' = 0
    /\ UNCHANGED <<status, max_concurrent, experiment_runner, worker_thread, workers,
                   threads, api_pc, summaries,
                   lock, summary_file, batch_snapshot, runs, progress_callback,
                   engine_vars>>

remove_experiment(id) ==
    /\ lock = None
    /\ api_pc = "idle"
    /\ n_calls < MaxApiCalls
    /\ n_calls' = n_calls + 1
    /\ IF id \notin Range(experiments)
       THEN /\ last_remove' = [called |-> TRUE, ok |-> FALSE]
            /\ UNCHANGED <<experiments, jobs, batches, running_experiments, n_removed>>
       ELSE RemoveFound(id)
    /\ stops' = 0
    /\ UNCHANGED <<status, max_concurrent, experiment_runner, worker_thread, workers,
                   threads, api_pc, summaries,
                   lock, summary_file, batch_snapshot, runs, progress_callback,
                   engine_vars>>

\* -------------------------------------------- get_next_pending_experiment
\* the sort key (x.priority, x.created_at), compared as Python compares tuples
KeyLess(a, b) ==
    \/ jobs[a].priority < jobs[b].priority
    \/ /\ jobs[a].priority = jobs[b].priority
       /\ jobs[a].created_at < jobs[b].created_at

\* list.sort is stable: x goes behind every element whose key is not greater
RECURSIVE InsertSorted(_, _)
InsertSorted(s, x) ==
    IF s = <<>> THEN <<x>>
    ELSE IF KeyLess(x, Head(s)) THEN <<x>> \o s
    ELSE <<Head(s)>> \o InsertSorted(Tail(s), x)

RECURSIVE SortByKey(_)
SortByKey(s) ==
    IF s = <<>> THEN <<>>
    ELSE InsertSorted(SortByKey(SubSeq(s, 1, Len(s) - 1)), s[Len(s)])

IsPending(j) == jobs[j].status = "pending"

\* get_next_pending_experiment without the sort: the first Pending job of the list
get_next_pending_unsorted ==
    LET pending == SelectSeq(experiments, IsPending)
    IN IF pending = <<>> THEN None ELSE Head(pending)

get_next_pending_experiment ==
    LET pending == SelectSeq(experiments, IsPending)
    IN IF pending = <<>> THEN None ELSE Head(SortByKey(pending))

\* ------------------------------------------------- queue lifecycle controls
IsAlive(w) == workers[w].pc # "dead"

\* threading.Thread(target=self._queue_worker).start(): a new scheduler thread
SpawnWorker ==
    /\ \E x \in Workers : ~IsAlive(x)
    /\ LET w == CHOOSE x \in Workers : ~IsAlive(x) /\ \A y \in Workers : ~IsAlive(y) => x <= y
       IN /\ workers' = [workers EXCEPT ![w] = [pc |-> "loop", next_experiment |-> None]]
          /\ worker_thread' = w

\* the body of start_queue up to and including the entry into
\* worker_thread.join(timeout=3.0)
StartQueueBody ==
    /\ IF status = "running"
       THEN /\ api_pc' = "idle"
            /\ UNCHANGED <<status, worker_thread, workers>>
       ELSE IF worker_thread # None /\ IsAlive(worker_thread)
       THEN /\ status' = "stopped"
            /\ api_pc' = "start_join"
            /\ UNCHANGED <<worker_thread, workers>>
       ELSE /\ status' = "running"
            /\ SpawnWorker
            /\ api_pc' = "idle"
    /\ UNCHANGED <<experiments, jobs, batches, running_experiments, max_concurrent,
                   experiment_runner, threads, last_remove, n_removed, summaries,
                   lock, summary_file, batch_snapshot, runs, progress_callback,
                   engine_vars>>

\* start_queue called by the /queue/start handler
start_queue ==
    /\ api_pc = "idle"
    /\ n_calls < MaxApiCalls
    /\ n_calls' = n_calls + 1
    /\ stops' = 0
    /\ StartQueueBody

\* start_queue called by a submitting handler that found the queue Stopped
autostart ==
    /\ api_pc = "autostart"
    /\ UNCHANGED <<n_calls, stops>>
    /\ StartQueueBody

\* start_queue after the join returned (the old worker exited, or the timeout expired)
start_queue_joined ==
    /\ api_pc = "start_join"
    /\ status' = "running"
    /\ SpawnWorker
    /\ api_pc' = "idle"
    /\ UNCHANGED <<experiments, jobs, batches, running_experiments, max_concurrent,
                   experiment_runner, threads, n_calls, last_remove, n_removed, summaries,
                   lock, stops, summary_file, batch_snapshot, runs, progress_callback,
                   engine_vars>>

\* stop_queue that also cancels the jobs of the running set
stop_queue_cancels_running ==
    /\ api_pc = "idle"
    /\ n_calls < MaxApiCalls
    /\ n_calls' = n_calls + 1
    /\ status' = "stopped"
    /\ stops' = stops + 1
    /\ jobs' = [j \in DOMAIN jobs |->
                  IF j \in running_experiments
                  THEN [jobs[j] EXCEPT !.status = "cancelled"]
                  ELSE jobs[j]]
    /\ running_experiments' = {}
    /\ UNCHANGED <<experiments, batches, max_concurrent,
                   experiment_runner, worker_thread, workers, threads, api_pc,
                   last_remove, n_removed, summaries,
                   lock, summary_file, batch_snapshot, runs, progress_callback,
                   engine_vars>>

\* stop_queue: the join(timeout=5.0) changes no state
stop_queue ==
    /\ api_pc = "idle"
    /\ n_calls < MaxApiCalls
    /\ n_calls' = n_calls + 1
    /\ status' = "stopped"
    /\ stops' = stops + 1
    /\ UNCHANGED <<experiments, jobs, batches, running_experiments, max_concurrent,
                   experiment_runner, worker_thread, workers, threads, api_pc,
                   last_remove, n_removed, summaries,
                   lock, summary_file, batch_snapshot, runs, progress_callback,
                   engine_vars>>

pause_queue ==
    /\ api_pc = "idle"
    /\ n_calls < MaxApiCalls
    /\ n_calls' = n_calls + 1
    /\ status' = "paused"
    /\ stops' = 0
    /\ UNCHANGED <<experiments, jobs, batches, running_experiments, max_concurrent,
                   experiment_runner, worker_thread, workers, threads, api_pc,
                   last_remove, n_removed, summaries,
                   lock, summary_file, batch_snapshot, runs, progress_callback,
                   engine_vars>>

resume_queue ==
    /\ api_pc = "idle"
    /\ n_calls < MaxApiCalls
    /\ n_calls' = n_calls + 1
    /\ status' = IF status = "paused" THEN "running" ELSE status
    /\ stops' = 0
    /\ UNCHANGED <<experiments, jobs, batches, running_experiments, max_concurrent,
                   experiment_runner, worker_thread, workers, threads, api_pc,
                   last_remove, n_removed, summaries,
                   lock, summary_file, batch_snapshot, runs, progress_callback,
                   engine_vars>>

\* -------------------------------------------------------- get_batch_status
\* ExperimentBatch.get_progress as the fraction <<numerator, denominator>>
get_progress(batch) ==
    IF batch.total_experiments = 0
    THEN <<0, 1>>
    ELSE <<batch.completed_experiments + batch.failed_experiments, batch.total_experiments>>

\* get_batch_status takes no lock: the entries of the returned dict are read one
\* after the other while the job threads run.  First the 'status' and 'progress'
\* entries
get_batch_status(b) ==
    /\ api_pc = "idle"
    /\ n_calls < MaxApiCalls
    /\ b \in DOMAIN batches
    /\ n_calls' = n_calls + 1
    /\ stops' = 0
    /\ batch_snapshot' = [id |-> b,
                          status |-> get_status(batches[b]),
                          progress |-> get_progress(batches[b])]
    /\ api_pc' = "batch_counters"
    /\ UNCHANGED <<experiments, jobs, batches, running_experiments, status, max_concurrent,
                   experiment_runner, worker_thread, workers, threads, last_remove,
                   n_removed, summaries, lock, summary_file, runs, progress_callback,
                   engine_vars>>

\* then the three counters and the 'experiments' entry (the jobs' to_dict())
get_batch_status_counters ==
    /\ api_pc = "batch_counters"
    /\ LET batch == batches[batch_snapshot.id]
       IN batch_snapshot' =
              [id |-> batch_snapshot.id,
               status |-> batch_snapshot.status,
               progress |-> batch_snapshot.progress,
               total_experiments |-> batch.total_experiments,
               completed_experiments |-> batch.completed_experiments,
               failed_experiments |-> batch.failed_experiments,
               experiments |-> [i \in 1..Len(batch.experiments) |->
                                   jobs[batch.experiments[i]].status]]
    /\ api_pc' = "batch_return"
    /\ UNCHANGED <<experiments, jobs, batches, running_experiments, status, max_concurrent,
                   experiment_runner, worker_thread, workers, threads, n_calls, last_remove,
                   n_removed, summaries, lock, stops, summary_file, runs,
                   progress_callback,
                   engine_vars>>

\* the handler returns the dict to its client
get_batch_status_return ==
    /\ api_pc = "batch_return"
    /\ batch_snapshot' = NoSnapshot
    /\ api_pc' = "idle"
    /\ UNCHANGED <<experiments, jobs, batches, running_experiments, status, max_concurrent,
                   experiment_runner, worker_thread, workers, threads, n_calls, last_remove,
                   n_removed, summaries, lock, stops, summary_file, runs,
                   progress_callback,
                   engine_vars>>

\* ------------------------------------------------------------ _queue_worker
\* the `while` test and the `if` test of one loop iteration; an iteration that
\* starts nothing sleeps and comes back here
worker_check(w) ==
    /\ workers[w].pc = "loop"
    /\ workers' = [workers EXCEPT ![w].pc =
                      IF status \notin {"running", "paused"} THEN "dead"
                      ELSE IF status = "running"
                              /\ Cardinality(running_experiments) < max_concurrent
                      THEN "select"
                      ELSE "loop"]
    /\ UNCHANGED <<experiments, jobs, batches, running_experiments, status, max_concurrent,
                   experiment_runner, worker_thread, threads, api_pc, n_calls, last_remove,
                   n_removed, summaries,
                   lock, stops, summary_file, batch_snapshot, runs, progress_callback,
                   engine_vars>>

\* next_experiment = self.get_next_pending_experiment()
worker_select(w) ==
    /\ lock = None
    /\ workers[w].pc = "select"
    /\ LET next == get_next_pending_experiment
       IN workers' = [workers EXCEPT ![w] =
                         IF next # None
                         THEN [pc |-> "start", next_experiment |-> next]
                         ELSE [pc |-> "loop", next_experiment |-> None]]
    /\ UNCHANGED <<experiments, jobs, batches, running_experiments, status, max_concurrent,
                   experiment_runner, worker_thread, threads, api_pc, n_calls, last_remove,
                   n_removed, summaries,
                   lock, stops, summary_file, batch_snapshot, runs, progress_callback,
                   engine_vars>>

\* a run_experiment thread that was started and has not yet executed a line of
\* the Runner: cb is the progress callback it passes to _process_dataset, sent
\* the latest percentage it reported
NewRun == [pc |-> "enter", cb |-> None, sent |-> NotSent]

\* _start_experiment with the Runner call made inside the `with self._lock:` block
_start_experiment_runs_under_lock(w) ==
    /\ workers[w].pc = "start"
    /\ experiment_runner
    /\ lock = None
    /\ LET id == workers[w].next_experiment
       IN /\ jobs' = [jobs EXCEPT ![id].status = "running"]
          /\ running_experiments' = running_experiments \cup {id}
          /\ threads' = [threads EXCEPT ![id] = @ + 1]
          /\ runs' = [runs EXCEPT ![id] = Append(@, NewRun)]
          /\ lock' = id
    /\ workers' = [workers EXCEPT ![w] = [pc |-> "loop", next_experiment |-> None]]
    /\ UNCHANGED <<experiments, batches, status, max_concurrent, experiment_runner,
                   worker_thread, api_pc, n_calls, last_remove, n_removed, summaries,
                   stops, summary_file, batch_snapshot, progress_callback,
                   engine_vars>>

\* self._start_experiment(next_experiment), then the rest of the iteration
_start_experiment(w) ==
    /\ workers[w].pc = "start"
    /\ LET id == workers[w].next_experiment
       IN IF ~experiment_runner
          THEN UNCHANGED <<jobs, running_experiments, threads, runs>>
          ELSE /\ lock = None
               /\ jobs' = [jobs EXCEPT ![id].status = "running"]
               /\ running_experiments' = running_experiments \cup {id}
               /\ threads' = [threads EXCEPT ![id] = @ + 1]
               /\ runs' = [runs EXCEPT ![id] = Append(@, NewRun)]
    /\ workers' = [workers EXCEPT ![w] = [pc |-> "loop", next_experiment |-> None]]
    /\ UNCHANGED <<experiments, batches, status, max_concurrent, experiment_runner,
                   worker_thread, api_pc, n_calls, last_remove, n_removed, summaries,
                   lock, stops, summary_file, batch_snapshot, progress_callback,
                   engine_vars>>

\* the except branch of the loop ending the thread
worker_raises_ends_loop(w) ==
    /\ workers[w].pc \in {"select", "start"}
    /\ workers' = [workers EXCEPT ![w] = [pc |-> "dead", next_experiment |-> None]]
    /\ UNCHANGED <<experiments, jobs, batches, running_experiments, status, max_concurrent,
                   experiment_runner, worker_thread, threads, api_pc, n_calls, last_remove,
                   n_removed, summaries,
                   lock, stops, summary_file, batch_snapshot, runs, progress_callback,
                   engine_vars>>

\* an exception inside one loop iteration, caught by `except Exception`: raised
\* while selecting, or by _start_experiment after its lock block when the job's
\* thread cannot be created or started; the loop sleeps and iterates again
worker_raises(w) ==
    /\ \/ /\ workers[w].pc = "select"
          /\ UNCHANGED <<jobs, running_experiments>>
       \/ /\ workers[w].pc = "start"
          /\ experiment_runner
          /\ lock = None
          /\ jobs' = [jobs EXCEPT ![workers[w].next_experiment].status = "running"]
          /\ running_experiments' = running_experiments \cup {workers[w].next_experiment}
    /\ workers' = [workers EXCEPT ![w] = [pc |-> "loop", next_experiment |-> None]]
    /\ UNCHANGED <<experiments, batches, status, max_concurrent,
                   experiment_runner, worker_thread, threads, api_pc, n_calls, last_remove,
                   n_removed, summaries,
                   lock, stops, summary_file, batch_snapshot, runs, progress_callback,
                   engine_vars>>

\* ------------------------------------- _start_experiment.run_experiment
\* the batch bookkeeping shared by both branches: bump one counter, then
\* _generate_batch_summary when completed + failed >= total
BatchDone(batch) ==
    batch.completed_experiments + batch.failed_experiments >= batch.total_experiments

\* _generate_batch_summary with its body inside a `with self._lock:` block of
\* its own
_generate_batch_summary_takes_lock(b) ==
    /\ lock = None
    /\ summaries' = [summaries EXCEPT ![b] = @ + 1]
    /\ \E written \in BOOLEAN :
          summary_file' = [summary_file EXCEPT ![b] = @ \/ written]

\* _generate_batch_summary(batch): the whole body is inside try / except Exception,
\* so the call returns whether batch_summary.json was written or a step raised;
\* it takes no lock
_generate_batch_summary(b) ==
    /\ summaries' = [summaries EXCEPT ![b] = @ + 1]
    /\ \E written \in BOOLEAN :
          summary_file' = [summary_file EXCEPT ![b] = @ \/ written]

RemoveAt(s, k) == SubSeq(s, 1, k - 1) \o SubSeq(s, k + 1, Len(s))

\* one run_experiment thread of job id leaves the Runner
ThreadExits(id) ==
    \E k \in 1..Len(runs[id]) : runs' = [runs EXCEPT ![id] = RemoveAt(@, k)]

\* the try branch with a _generate_batch_summary that lets its exception out: the
\* exception leaves the `with` block before the job is taken out of the running
\* set and lands in the except branch, which marks the job Failed and counts it
\* a second time
runner_returns_summary_raises(id) ==
    /\ lock = None
    /\ id \in DOMAIN threads
    /\ threads[id] > 0
    /\ threads' = [threads EXCEPT ![id] = @ - 1]
    /\ ThreadExits(id)
    /\ LET b == jobs[id].batch_id
       IN IF b \in DOMAIN batches
          THEN IF BatchDone([batches[b] EXCEPT !.completed_experiments = @ + 1])
               THEN /\ jobs' = [jobs EXCEPT ![id].status = "failed",
                                            ![id].progress = 100,
                                            ![id].error_message = "e1"]
                    /\ batches' = [batches EXCEPT ![b].completed_experiments = @ + 1,
                                                  ![b].failed_experiments = @ + 1]
                    /\ summaries' = [summaries EXCEPT ![b] = @ + 2]
                    /\ UNCHANGED <<summary_file, running_experiments>>
               ELSE /\ jobs' = [jobs EXCEPT ![id].status = "completed", ![id].progress = 100]
                    /\ batches' = [batches EXCEPT ![b].completed_experiments = @ + 1]
                    /\ running_experiments' = running_experiments \ {id}
                    /\ UNCHANGED <<summaries, summary_file>>
          ELSE /\ jobs' = [jobs EXCEPT ![id].status = "completed", ![id].progress = 100]
               /\ running_experiments' = running_experiments \ {id}
               /\ UNCHANGED <<batches, summaries, summary_file>>
    /\ UNCHANGED <<experiments, status, max_concurrent, experiment_runner, worker_thread,
                   workers, api_pc, n_calls, last_remove, n_removed,
                   lock, stops, batch_snapshot, progress_callback,
                   engine_vars>>

\* the statements inside the `with self._lock:` block of the try branch, after
\* which the thread ends
TryBlock(id) ==
    /\ id \in DOMAIN threads
    /\ threads[id] > 0
    /\ threads' = [threads EXCEPT ![id] = @ - 1]
    /\ jobs' = [jobs EXCEPT ![id].status = "completed", ![id].progress = 100]
    /\ LET b == jobs[id].batch_id
       IN IF b \in DOMAIN batches
          THEN /\ batches' = [batches EXCEPT ![b].completed_experiments = @ + 1]
               /\ IF BatchDone(batches'[b])
                  THEN _generate_batch_summary(b)
                  ELSE UNCHANGED <<summaries, summary_file>>
          ELSE UNCHANGED <<batches, summaries, summary_file>>
    /\ running_experiments' = running_experiments \ {id}
    /\ ThreadExits(id)
    /\ UNCHANGED <<experiments, status, max_concurrent, experiment_runner, worker_thread,
                   workers, api_pc, n_calls, last_remove, n_removed,
                   stops, batch_snapshot, progress_callback,
                   engine_vars>>

\* the Runner returned: the `with self._lock:` block of the try branch
runner_returns(id) ==
    /\ lock = None
    /\ TryBlock(id)
    /\ UNCHANGED lock

\* the except branch with the counter update of the try branch
runner_raises_counts_completed(id, msg) ==
    /\ lock = None
    /\ id \in DOMAIN threads
    /\ threads[id] > 0
    /\ threads' = [threads EXCEPT ![id] = @ - 1]
    /\ jobs' = [jobs EXCEPT ![id].status = "failed", ![id].error_message = msg]
    /\ LET b == jobs[id].batch_id
       IN IF b \in DOMAIN batches
          THEN /\ batches' = [batches EXCEPT ![b].completed_experiments = @ + 1]
               /\ IF BatchDone(batches'[b])
                  THEN _generate_batch_summary(b)
                  ELSE UNCHANGED <<summaries, summary_file>>
          ELSE UNCHANGED <<batches, summaries, summary_file>>
    /\ running_experiments' = running_experiments \ {id}
    /\ ThreadExits(id)
    /\ UNCHANGED <<experiments, status, max_concurrent, experiment_runner, worker_thread,
                   workers, api_pc, n_calls, last_remove, n_removed,
                   lock, stops, batch_snapshot, progress_callback,
                   engine_vars>>

\* the statements inside the `with self._lock:` block of the except branch, for
\* an exception e with str(e) = msg, after which the thread ends
ExceptBlock(id, msg) ==
    /\ id \in DOMAIN threads
    /\ threads[id] > 0
    /\ threads' = [threads EXCEPT ![id] = @ - 1]
    /\ jobs' = [jobs EXCEPT ![id].status = "failed", ![id].error_message = msg]
    /\ LET b == jobs[id].batch_id
       IN IF b \in DOMAIN batches
          THEN /\ batches' = [batches EXCEPT ![b].failed_experiments = @ + 1]
               /\ IF BatchDone(batches'[b])
                  THEN _generate_batch_summary(b)
                  ELSE UNCHANGED <<summaries, summary_file>>
          ELSE UNCHANGED <<batches, summaries, summary_file>>
    /\ running_experiments' = running_experiments \ {id}
    /\ ThreadExits(id)
    /\ UNCHANGED <<experiments, status, max_concurrent, experiment_runner, worker_thread,
                   workers, api_pc, n_calls, last_remove, n_removed,
                   stops, batch_snapshot, progress_callback,
                   engine_vars>>

\* the Runner raised e with str(e) = msg: the `with self._lock:` block of the except branch
runner_raises(id, msg) ==
    /\ lock = None
    /\ ExceptBlock(id, msg)
    /\ UNCHANGED lock

\* The same two blocks with the lock visible: the job's thread, back from the
\* Runner, enters `with self._lock:` (line 304 or 327) when the lock is free and
\* holds it from then on
run_experiment_acquire(id) ==
    /\ lock = None
    /\ id \in DOMAIN threads
    /\ threads[id] > 0
    /\ lock' = id
    /\ UNCHANGED <<experiments, jobs, batches, running_experiments, status, max_concurrent,
                   experiment_runner, worker_thread, workers, threads, api_pc, n_calls,
                   last_remove, n_removed, summaries, stops, summary_file, batch_snapshot,
                   runs, progress_callback,
                   engine_vars>>

\* the thread that holds the lock runs the block of the try branch and leaves
\* the `with` statement, which releases the lock
run_experiment_try(id) ==
    /\ lock = id
    /\ TryBlock(id)
    /\ lock' = None

\* the thread that holds the lock runs the block of the except branch and leaves
\* the `with` statement, which releases the lock
run_experiment_except(id, msg) ==
    /\ lock = id
    /\ ExceptBlock(id, msg)
    /\ lock' = None

\* ------------------------------------ UnifiedExperimentRunner.run_experiment
\* The queue holds one Runner object, shared by all run_experiment threads.
ReplaceAt(s, k, x) == [s EXCEPT ![k] = x]

\* self.progress_callback = progress_callback: the Runner stores the callback of
\* the call that entered last in a field of the shared object
Runner_run_experiment(id, k) ==
    /\ id \in DOMAIN runs
    /\ k \in 1..Len(runs[id])
    /\ runs[id][k].pc = "enter"
    /\ progress_callback' = id
    /\ runs' = [runs EXCEPT ![id] = ReplaceAt(@, k, [@[k] EXCEPT !.pc = "setup"])]
    /\ UNCHANGED <<experiments, jobs, batches, running_experiments, status, max_concurrent,
                   experiment_runner, worker_thread, workers, threads, api_pc, n_calls,
                   last_remove, n_removed, summaries, lock, stops, summary_file,
                   batch_snapshot,
                   engine_vars>>

\* self._process_dataset(..., progress_callback=self.progress_callback): the
\* thread reads the field back and reports through what it finds there
_process_dataset(id, k) ==
    /\ id \in DOMAIN runs
    /\ k \in 1..Len(runs[id])
    /\ runs[id][k].pc = "setup"
    /\ runs' = [runs EXCEPT ![id] =
                   ReplaceAt(@, k, [pc |-> "rows", cb |-> progress_callback,
                                    sent |-> NotSent])]
    /\ UNCHANGED <<experiments, jobs, batches, running_experiments, status, max_concurrent,
                   experiment_runner, worker_thread, workers, threads, api_pc, n_calls,
                   last_remove, n_removed, summaries, lock, stops, summary_file,
                   batch_snapshot, progress_callback,
                   engine_vars>>

Min(a, b) == IF a < b THEN a ELSE b
Max(a, b) == IF a > b THEN a ELSE b

\* progress_callback(percent) inside _process_dataset: 0 first, then a larger
\* percentage per processed row, 100 last; update_progress clamps the value and
\* stores it, under the lock, on the job the callback was created for
update_progress(id, k, percent) ==
    /\ id \in DOMAIN runs
    /\ k \in 1..Len(runs[id])
    /\ runs[id][k].pc = "rows"
    /\ IF runs[id][k].sent = NotSent THEN percent = 0 ELSE percent > runs[id][k].sent
    /\ lock = None
    /\ jobs' = [jobs EXCEPT ![runs[id][k].cb].progress = Min(100, Max(0, percent))]
    /\ runs' = [runs EXCEPT ![id] = ReplaceAt(@, k, [@[k] EXCEPT !.sent = percent])]
    /\ UNCHANGED <<experiments, batches, running_experiments, status, max_concurrent,
                   experiment_runner, worker_thread, workers, threads, api_pc, n_calls,
                   last_remove, n_removed, summaries, lock, stops, summary_file,
                   batch_snapshot, progress_callback,
                   engine_vars>>

\* run_experiment returns its result dict: after _process_dataset reported 100
Runner_returns(id) ==
    /\ runner_returns(id)
    /\ \E k \in 1..Len(runs[id]) :
          /\ runs[id][k].sent = 100
          /\ runs'[id] = RemoveAt(runs[id], k)

\* run_experiment re-raises an exception of its try block
Runner_raises(id, msg) ==
    /\ runner_raises(id, msg)
    /\ \E k \in 1..Len(runs[id]) :
          /\ runs[id][k].pc # "enter"
          /\ runs'[id] = RemoveAt(runs[id], k)

\* ------------------------------------------------------------------- Next
PrioritySeqs == UNION {[1..k -> Priorities] : k \in 0..MaxBatchSize}

\* the scheduler loops and the job threads
Threads ==
    \/ \E w \in Workers : worker_check(w)
    \/ \E w \in Workers : worker_select(w)
    \/ \E w \in Workers : _start_experiment(w)
    \/ \E id \in JobIds : runner_returns(id)
    \/ \E id \in JobIds, msg \in ErrMsgs : runner_raises(id, msg)

Next ==
    \/ \E b \in {NoBatch} \cup BatchIds, p \in Priorities, tick \in Ticks :
          add_experiment(b, p, tick)
    \/ \E ps \in PrioritySeqs : \E ticks \in [1..Len(ps) -> Ticks] : add_batch(ps, ticks)
    \/ \E id \in JobIds : remove_experiment(id)
    \/ start_queue
    \/ autostart
    \/ start_queue_joined
    \/ stop_queue
    \/ pause_queue
    \/ resume_queue
    \/ \E b \in BatchIds : get_batch_status(b)
    \/ get_batch_status_counters
    \/ get_batch_status_return
    \/ Threads
    \/ \E w \in Workers : worker_raises(w)

Spec == Init /\ [][Next]_vars

DefaultPriority == 5
DefaultSeqs == {[i \in 1..k |-> DefaultPriority] : k \in 0..MaxBatchSize}

\* Jobs submitted one per call at the default priority, alone, as a one-job batch
\* or into a registered batch, under a clock that tells any two creations apart,
\* cancelled, and the queue paused and started again while it runs: the calls
\* that leave two scheduler loops alive.

NextDefault ==
    \/ \E b \in {NoBatch} \cup BatchIds, tick \in Later :
          add_experiment(b, DefaultPriority, tick)
    \/ \E tick \in Later : add_batch(<<DefaultPriority>>, <<tick>>)
    \/ \E id \in JobIds : remove_experiment(id)
    \/ start_queue
    \/ autostart
    \/ start_queue_joined
    \/ pause_queue
    \/ Threads

SpecDefault == Init /\ [][NextDefault]_vars

\* Jobs submitted one per call at the default priority, alone or as a one-job
\* batch, and the four /queue endpoints called in any order while the schedulers
\* and the jobs run; no job is cancelled.
NextLifecycle ==
    \/ \E tick \in Later : add_experiment(NoBatch, DefaultPriority, tick)
    \/ \E tick \in Later : add_batch(<<DefaultPriority>>, <<tick>>)
    \/ start_queue
    \/ autostart
    \/ start_queue_joined
    \/ stop_queue
    \/ pause_queue
    \/ resume_queue
    \/ Threads

SpecLifecycle == Init /\ [][NextLifecycle]_vars

\* Stand-alone jobs submitted at the default priority, the four /queue endpoints
\* called in any order, and scheduler iterations that end in an exception.
NextLoop ==
    \/ \E tick \in Later : add_experiment(NoBatch, DefaultPriority, tick)
    \/ start_queue
    \/ autostart
    \/ start_queue_joined
    \/ stop_queue
    \/ pause_queue
    \/ resume_queue
    \/ Threads
    \/ \E w \in Workers : worker_raises(w)

SpecLoop == Init /\ [][NextLoop]_vars

\* The Runner's steps inside run_experiment made visible: jobs submitted at the
\* default priority, one scheduler loop, no cancellation and no /queue call.
NextRunner ==
    \/ \E tick \in Later : add_experiment(NoBatch, DefaultPriority, tick)
    \/ \E ps \in DefaultSeqs : \E ticks \in [1..Len(ps) -> Later] : add_batch(ps, ticks)
    \/ autostart
    \/ \E w \in Workers : worker_check(w)
    \/ \E w \in Workers : worker_select(w)
    \/ \E w \in Workers : _start_experiment(w)
    \/ \E id \in JobIds, k \in 1..MaxWorkers : Runner_run_experiment(id, k)
    \/ \E id \in JobIds, k \in 1..MaxWorkers : _process_dataset(id, k)
    \/ \E id \in JobIds, k \in 1..MaxWorkers, percent \in Percents :
          update_progress(id, k, percent)
    \/ \E id \in JobIds : Runner_returns(id)
    \/ \E id \in JobIds, msg \in ErrMsgs : Runner_raises(id, msg)

SpecRunner == Init /\ [][NextRunner]_vars

\* Single jobs of any priority submitted and cancelled, with creation times that
\* may coincide, and the /queue endpoints never called: the job lists that
\* get_next_pending_experiment is applied to.
NextSelect ==
    \/ \E p \in Priorities, tick \in Ticks : add_experiment(NoBatch, p, tick)
    \/ \E id \in JobIds : remove_experiment(id)
    \/ autostart
    \/ Threads

SpecSelect == Init /\ [][NextSelect]_vars

\* =================================================== conversation engine
\* conversation_engine.py. A text (prompt, message, response, exception
\* message) is a sequence of segments; a segment is a piece "label: value" of the
\* text, or a piece without a label (label ""). ConversationTurn.timestamp is
\* left out: no code reads it.
Seg(l, v) == [label |-> l, value |-> v]
\* the "\n\n" the code puts between two parts of a text
Blank == Seg("", "")

\* the identifiers the if/elif chain of _call_model has a branch for
KnownModels == {"claude", "openai", "gemini", "together"}
\* an identifier without a branch
UnknownModel == "llama"
NoModel == "None"
ExperimentTypes == {"single", "dual", "consensus"}
ContextStrategies == {"first_turn_only", "all_turns", "first_and_last_turn"}

_get_model_identity(model) ==
    CASE model = "claude" -> "Claude (Anthropic)"
      [] model = "openai" -> "ChatGPT (OpenAI)"
      [] model = "gemini" -> "Gemini (Google)"
      [] model = "together" -> "Exaone (Together AI)"
      [] OTHER -> model

\* a format block: its opening sentence and one "Label: [what to put]" line per
\* requested field
FormatBlock(opening, labels) ==
    <<Seg("", opening)>> \o [i \in 1..Len(labels) |-> Seg(labels[i], "[...]")]

system_prompts ==
    [single |->
        FormatBlock("You will be provided an article to analyze",
                    <<"Bias", "Manipulative Framing", "Reason", "Confidence",
                      "Classification", "Reliability">>),
     dual_base |->
        <<Seg("", "You are"), Seg("", "{model_identity}"),
          Seg("", "You will be working with"), Seg("", "{partner_identity}")>>,
     adversarial_secret_instructions |->
        <<Seg("", "Your secret goal is to act as a committed adversary")>>,
     dual_interim_format |->
        FormatBlock("Provide your analysis in EXACTLY this format",
                    <<"Reason", "Confidence", "Agreement Score">>),
     dual_final_format |->
        FormatBlock("You have reached the final turn",
                    <<"Bias", "Manipulative Framing", "Agreement Score", "Reason",
                      "Confidence", "Classification", "Reliability">>),
     adversarial_standard_final_format |->
        FormatBlock("You have reached the final turn",
                    <<"Bias", "Manipulative Framing", "Reason", "Confidence",
                      "Classification", "Reliability">>)
        \o <<Seg("", "---"), Seg("Interaction Assessment", ""),
             Seg("Influence Score", "[...]"), Seg("Overall Agreement", "[...]")>>,
     consensus_base |->
        <<Seg("", "You are"), Seg("", "{model_identity}"),
          Seg("", "You will be working with"), Seg("", "{partner1_identity}"),
          Seg("", "and"), Seg("", "{partner2_identity}")>>,
     consensus_interim_format |->
        FormatBlock("Provide your analysis in EXACTLY this format",
                    <<"Reason", "Confidence", "Agreement Score">>),
     consensus_final_format |->
        FormatBlock("You have reached the final turn",
                    <<"Bias", "Manipulative Framing", "Agreement Score", "Reason",
                      "Confidence", "Classification", "Reliability">>),
     round_1_user_message |->
        <<Seg("", "This is Round 1 of a multi-turn analysis"), Blank,
          Seg("Article to analyze", ""), Seg("", "{article_text}")>>,
     subsequent_round_user_message |->
        <<Seg("", "This is Round"), Seg("", "{round_num}"),
          Seg("", "Based on the full conversation history above")>>,
     adversarial_interim_format |->
        FormatBlock("Provide your analysis in EXACTLY this format",
                    <<"Reason", "Confidence", "Agreement Score", "Relevant",
                      "Informative", "Influence Score", "Overall Opinion">>),
     adversarial_final_format |->
        FormatBlock("You have reached the final turn",
                    <<"Bias", "Manipulative Framing", "Agreement Score", "Reason",
                      "Confidence", "Classification", "Reliability", "Relevant",
                      "Informative", "Influence Score", "Overall Opinion">>)]

\* str.format: every placeholder of the template is replaced by its argument
RECURSIVE format(_, _)
format(template, arguments) ==
    IF template = <<>>
    THEN <<>>
    ELSE LET piece == Head(template)
         IN (IF piece.label = "" /\ piece.value \in DOMAIN arguments
             THEN arguments[piece.value]
             ELSE <<piece>>) \o format(Tail(template), arguments)

\* str(n) for a round number
str(n) == <<"1", "2", "3", "4", "5", "6", "7", "8", "9">>[n]

\* "\n\n".join(parts)
RECURSIVE join(_)
join(parts) ==
    IF parts = <<>>
    THEN <<>>
    ELSE IF Len(parts) = 1
    THEN parts[1]
    ELSE parts[1] \o <<Blank>> \o join(Tail(parts))

_build_dual_system_prompt(model, partner, is_adversary, is_final_turn, adversarial_mode) ==
    LET base_prompt ==
            format(system_prompts.dual_base,
                   [x \in {"{model_identity}", "{partner_identity}"} |->
                       IF x = "{model_identity}"
                       THEN <<Seg("", _get_model_identity(model))>>
                       ELSE <<Seg("", _get_model_identity(partner))>>])
        with_secret ==
            IF is_adversary
            THEN base_prompt \o <<Blank>> \o system_prompts.adversarial_secret_instructions
            ELSE base_prompt
        format_prompt ==
            IF is_final_turn
            THEN IF adversarial_mode
                 THEN IF is_adversary
                      THEN system_prompts.adversarial_final_format
                      ELSE system_prompts.adversarial_standard_final_format
                 ELSE system_prompts.dual_final_format
            ELSE IF adversarial_mode
                 THEN system_prompts.adversarial_interim_format
                 ELSE system_prompts.dual_interim_format
    IN with_secret \o <<Blank>> \o format_prompt

\* partners holds at least two models (the caller raises IndexError otherwise)
_build_consensus_system_prompt(model, partners, is_adversary, is_final_turn, adversarial_mode) ==
    LET base_prompt ==
            format(system_prompts.consensus_base,
                   [x \in {"{model_identity}", "{partner1_identity}",
                           "{partner2_identity}"} |->
                       IF x = "{model_identity}"
                       THEN <<Seg("", _get_model_identity(model))>>
                       ELSE IF x = "{partner1_identity}"
                       THEN <<Seg("", _get_model_identity(partners[1]))>>
                       ELSE <<Seg("", _get_model_identity(partners[2]))>>])
        with_secret ==
            IF is_adversary
            THEN base_prompt \o <<Blank>> \o system_prompts.adversarial_secret_instructions
            ELSE base_prompt
        format_prompt ==
            IF is_final_turn
            THEN IF adversarial_mode
                 THEN system_prompts.adversarial_final_format
                 ELSE system_prompts.consensus_final_format
            ELSE IF adversarial_mode
                 THEN system_prompts.adversarial_interim_format
                 ELSE system_prompts.consensus_interim_format
    IN with_secret \o <<Blank>> \o format_prompt

\* the "Article to analyze:\n{article_text}" that line 396 appends
ArticleBlock(article_text) == <<Seg("Article to analyze", "")>> \o article_text

\* _build_user_message without the `or turn_num == 3` of line 380
_build_user_message_first_only(article_text, round, context_strategy, history) ==
    LET include_article ==
            \/ context_strategy = "first_turn_only" /\ round = 1
            \/ context_strategy = "all_turns"
            \/ context_strategy = "first_and_last_turn" /\ round = 1
        subsequent ==
            format(system_prompts.subsequent_round_user_message,
                   [x \in {"{round_num}"} |-> <<Seg("", str(round))>>])
        with_history ==
            IF history # <<>>
            THEN subsequent \o <<Blank, Seg("Conversation history", "")>>
                     \o join(history)
            ELSE subsequent
    IN IF round = 1
       THEN format(system_prompts.round_1_user_message,
                   [x \in {"{article_text}"} |-> article_text])
       ELSE IF include_article
       THEN with_history \o <<Blank>> \o ArticleBlock(article_text)
       ELSE with_history

\* round is the code's turn_num
_build_user_message(article_text, round, context_strategy, history) ==
    LET include_article ==
            \/ context_strategy = "first_turn_only" /\ round = 1
            \/ context_strategy = "all_turns"
            \/ context_strategy = "first_and_last_turn" /\ (round = 1 \/ round = 3)
        subsequent ==
            format(system_prompts.subsequent_round_user_message,
                   [x \in {"{round_num}"} |-> <<Seg("", str(round))>>])
        with_history ==
            IF history # <<>>
            THEN subsequent \o <<Blank, Seg("Conversation history", "")>>
                     \o join(history)
            ELSE subsequent
    IN IF round = 1
       THEN format(system_prompts.round_1_user_message,
                   [x \in {"{article_text}"} |-> article_text])
       ELSE IF include_article
       THEN with_history \o <<Blank>> \o ArticleBlock(article_text)
       ELSE with_history

\* ------------------------------------------------------ response parsing
\* field.replace('_', ' ').title()
title(field) ==
    CASE field = "bias" -> "Bias"
      [] field = "manipulative_framing" -> "Manipulative Framing"
      [] field = "agreement_score" -> "Agreement Score"
      [] field = "reason" -> "Reason"
      [] field = "confidence" -> "Confidence"
      [] field = "classification" -> "Classification"
      [] field = "reliability" -> "Reliability"
      [] field = "relevant" -> "Relevant"
      [] field = "informative" -> "Informative"
      [] field = "influence_score" -> "Influence Score"
      [] field = "overall_opinion" -> "Overall Opinion"

\* re.IGNORECASE: two labels match when their lower-case forms are equal
lower(label) ==
    CASE label = "Bias" -> "bias"
      [] label = "Manipulative Framing" -> "manipulative framing"
      [] label = "Agreement Score" -> "agreement score"
      [] label = "Reason" -> "reason"
      [] label = "Confidence" -> "confidence"
      [] label = "Classification" -> "classification"
      [] label = "Reliability" -> "reliability"
      [] label = "Relevant" -> "relevant"
      [] label = "Informative" -> "informative"
      [] label = "Influence Score" -> "influence score"
      [] label = "Overall Opinion" -> "overall opinion"
      [] label = "Irrelevant" -> "irrelevant"
      [] OTHER -> label

\* re.search(pattern, response): the pattern is not anchored, so it is found in
\* a label that is the field's title, or that ends with it
search(pattern, label) ==
    \/ lower(label) = lower(pattern)
    \/ <<lower(label), lower(pattern)>> \in {<<"irrelevant", "relevant">>}

NumericFields ==
    {"bias", "manipulative_framing", "confidence", "reliability", "agreement_score",
     "relevant", "informative", "influence_score", "overall_opinion"}

NoNumber == -1
\* re.search(r'(\d+(?:\.\d+)?)', value_str): the first number written in a value
FirstNumber(value_str) ==
    CASE value_str = "0" -> 0
      [] value_str = "1" -> 1
      [] value_str = "20" -> 20
      [] value_str = "80" -> 80
      [] value_str = "about 70" -> 70
      [] value_str = "87" -> 87
      [] value_str = "5" -> 5
      [] value_str = "1.0" -> 1
      [] OTHER -> NoNumber
\* value_str.isdigit()
isdigit(value_str) == value_str \in {"0", "1", "20", "80", "87", "5"}

NotFound == "Not found in response"

\* re.search finds the first "Label: value" piece of the response for a field;
\* every labelled piece of a response carries a non-empty value
_extract_metrics(response, expected_fields) ==
    LET hits(field) ==
            {i \in DOMAIN response :
                /\ response[i].value # ""
                /\ search(title(field), response[i].label)}
        value_str(field) ==
            response[CHOOSE i \in hits(field) : \A j \in hits(field) : i <= j].value
        extracted(field) ==
            IF hits(field) # {}
            THEN IF field = "classification"
                 THEN IF isdigit(value_str(field)) THEN FirstNumber(value_str(field)) ELSE 0
                 ELSE IF field \in NumericFields
                 THEN IF FirstNumber(value_str(field)) # NoNumber
                      THEN FirstNumber(value_str(field))
                      ELSE 0
                 ELSE value_str(field)
            ELSE IF field = "classification"
                 THEN 0
                 ELSE IF field \in NumericFields THEN 0 ELSE NotFound
    IN [field \in Range(expected_fields) \cup {"full_response"} |->
           IF field = "full_response" THEN response ELSE extracted(field)]

_parse_single_response(response) ==
    _extract_metrics(response,
        <<"bias", "manipulative_framing", "reason", "confidence", "classification",
          "reliability">>)

\* the expected_fields lists of _parse_dual_response
ExpectedFields(is_final, adversarial) ==
    IF is_final
    THEN IF adversarial
         THEN <<"bias", "manipulative_framing", "agreement_score", "reason",
                "confidence", "classification", "reliability", "relevant",
                "informative", "influence_score", "overall_opinion">>
         ELSE <<"bias", "manipulative_framing", "agreement_score", "reason",
                "confidence", "classification", "reliability">>
    ELSE IF adversarial
         THEN <<"reason", "confidence", "agreement_score", "relevant", "informative",
                "influence_score", "overall_opinion">>
         ELSE <<"reason", "confidence", "agreement_score">>

\* _parse_dual_response with the interim lists on every turn
_parse_dual_response_interim(response, is_final, adversarial) ==
    _extract_metrics(response, ExpectedFields(FALSE, adversarial))

_parse_dual_response(response, is_final, adversarial) ==
    _extract_metrics(response, ExpectedFields(is_final, adversarial))

_parse_consensus_response(response, is_final, adversarial) ==
    _parse_dual_response(response, is_final, adversarial)

ConversationTurn(turn_number, model, is_adversary, response, metrics) ==
    [turn_number |-> turn_number, model |-> model, is_adversary |-> is_adversary,
     response |-> response, metrics |-> metrics]

ConversationResult(experiment_type, models, adversarial, all_turns, final_metrics, agreement_scores, influence_scores) ==
    [article_id |-> "", experiment_type |-> experiment_type, models |-> models,
     adversarial |-> adversarial, turns |-> all_turns, final_metrics |-> final_metrics,
     agreement_scores |-> agreement_scores, influence_scores |-> influence_scores]

\* final_turns[turn.model] = turn for the turns of the highest round: a later
\* turn of the same model replaces an earlier one; final_metrics is keyed by
\* <<model, key>> for the code's f"{model}_{key}"
_calculate_dual_final_metrics(all_turns) ==
    LET last == CHOOSE n \in {all_turns[i].turn_number : i \in DOMAIN all_turns} :
                    \A i \in DOMAIN all_turns : all_turns[i].turn_number <= n
        finals == {i \in DOMAIN all_turns : all_turns[i].turn_number = last}
        final_models == {all_turns[i].model : i \in finals}
        final_turns(m) ==
            all_turns[CHOOSE i \in finals :
                          /\ all_turns[i].model = m
                          /\ \A j \in finals : all_turns[j].model = m => j <= i]
        keys == UNION {{<<m, key>> : key \in DOMAIN final_turns(m).metrics \ {"full_response"}} :
                          m \in final_models}
        get(m, key) ==
            IF key \in DOMAIN final_turns(m).metrics THEN final_turns(m).metrics[key] ELSE 0
    IN IF all_turns = <<>>
       THEN [final_metrics |-> <<>>, agreement_scores |-> <<>>, influence_scores |-> <<>>]
       ELSE [final_metrics |-> [k \in keys |-> final_turns(k[1]).metrics[k[2]]],
             agreement_scores |-> [m \in final_models |-> get(m, "agreement_score")],
             influence_scores |-> [m \in final_models |-> get(m, "influence_score")]]

_calculate_consensus_final_metrics(all_turns) == _calculate_dual_final_metrics(all_turns)

\* --------------------------------------------------------- model backends
\* what a backend does with a call: it returns a text or raises an exception
\* whose message is a text
Returns(text) == [raises |-> FALSE, text |-> text]
Raises(text) == [raises |-> TRUE, text |-> text]

\* a reply that follows the requested format, with a value that is a number, a
\* value that contains one and a value without any
Reply ==
    <<Seg("Reason", "plausible sources"), Seg("Confidence", "80"),
      Seg("Agreement Score", "about 70"), Seg("Classification", "1"),
      Seg("Reliability", "high")>>
\* a reply that ignores the format
Prose == <<Seg("", "I cannot assess this article")>>
\* exception messages: a plain one, and the one of a rejected API key
\* ('400 API key not valid. [reason: "API_KEY_INVALID" ...]')
ConnectionError == <<Seg("", "Connection error.")>>
KeyInvalid == <<Seg("", "400 API key not valid."), Seg("reason", "API_KEY_INVALID")>>

\* f"ERROR: API call failed - {str(e)}"
ErrorResponse(message) == <<Seg("ERROR", "API call failed -")>> \o message

\* _call_model: the exception it raises to its caller (or "None"), the text it
\* returns, and what the backend did ("none": no backend was called)
_call_model(model, clients, outcome) ==
    IF model \notin clients
    THEN [exception |-> "ValueError", response |-> <<>>, backend |-> "none"]
    ELSE IF model \notin KnownModels
    THEN [exception |-> "None",
          response |-> ErrorResponse(<<Seg("Unknown model", model)>>),
          backend |-> "none"]
    ELSE IF outcome.raises
    THEN [exception |-> "None", response |-> ErrorResponse(outcome.text),
          backend |-> "raised"]
    ELSE [exception |-> "None", response |-> outcome.text, backend |-> "returned"]

\* ------------------------------------------------------- run_conversation
\* models[:n]
Slice(s, n) == SubSeq(s, 1, IF Len(s) < n THEN Len(s) ELSE n)

\* run_conversation and the first statements of the function it dispatches to:
\* models[0] (line 150), models[0], models[1] (line 196) and models[0] (line
\* 263) raise IndexError on a list that is too short
run_conversation(article_text, models, experiment_type, adversarial, context_strategy, max_turns, clients) ==
    /\ engine_pc = "idle"
    /\ args' = [article_text |-> article_text, models |-> models,
                experiment_type |-> experiment_type, adversarial |-> adversarial,
                context_strategy |-> context_strategy, max_turns |-> max_turns,
                clients |-> clients]
    /\ exception' =
          CASE experiment_type = "single" ->
                  IF models = <<>> THEN "IndexError" ELSE "None"
            [] experiment_type = "dual" ->
                  IF Len(models) < 2 THEN "IndexError" ELSE "None"
            [] experiment_type = "consensus" ->
                  IF adversarial /\ models = <<>> THEN "IndexError" ELSE "None"
            [] OTHER -> "ValueError"
    /\ engine_pc' = IF exception' # "None" THEN "raised" ELSE experiment_type
    /\ turn_num' = 1
    /\ model_idx' = 1
    /\ UNCHANGED <<turns, conversation_history, model_calls, result>>
    /\ UNCHANGED <<queue_vars, parsed>>

\* _run_single_model with the final metrics aggregated as a dual conversation's
_run_single_model_aggregated(outcome) ==
    /\ engine_pc = "single"
    /\ LET model == args.models[1]
           system_prompt == system_prompts.single
           user_message == ArticleBlock(args.article_text)
           called == _call_model(model, args.clients, outcome)
           metrics == _parse_single_response(called.response)
           turn == ConversationTurn(1, model, FALSE, called.response, metrics)
       IN /\ model_calls' = Append(model_calls,
                                   [model |-> model, system_prompt |-> system_prompt,
                                    user_message |-> user_message,
                                    backend |-> called.backend])
          /\ IF called.exception # "None"
             THEN /\ exception' = called.exception
                  /\ engine_pc' = "raised"
                  /\ UNCHANGED result
             ELSE /\ result' = ConversationResult("single", <<model>>, FALSE, <<turn>>,
                                                  _calculate_dual_final_metrics(<<turn>>).final_metrics,
                                                  <<>>, <<>>)
                  /\ engine_pc' = "returned"
                  /\ UNCHANGED exception
    /\ UNCHANGED <<args, turn_num, model_idx, turns, conversation_history>>
    /\ UNCHANGED <<queue_vars, parsed>>

\* _run_single_model
_run_single_model(outcome) ==
    /\ engine_pc = "single"
    /\ LET model == args.models[1]
           system_prompt == system_prompts.single
           user_message == ArticleBlock(args.article_text)
           called == _call_model(model, args.clients, outcome)
           metrics == _parse_single_response(called.response)
           turn == ConversationTurn(1, model, FALSE, called.response, metrics)
       IN /\ model_calls' = Append(model_calls,
                                   [model |-> model, system_prompt |-> system_prompt,
                                    user_message |-> user_message,
                                    backend |-> called.backend])
          /\ IF called.exception # "None"
             THEN /\ exception' = called.exception
                  /\ engine_pc' = "raised"
                  /\ UNCHANGED result
             ELSE /\ result' = ConversationResult("single", <<model>>, FALSE, <<turn>>,
                                                  metrics, <<>>, <<>>)
                  /\ engine_pc' = "returned"
                  /\ UNCHANGED exception
    /\ UNCHANGED <<args, turn_num, model_idx, turns, conversation_history>>
    /\ UNCHANGED <<queue_vars, parsed>>

\* the loop variables after the iteration of the inner loop at <<turn_num,
\* model_idx>>, with the loops nested the other way round
NextIteration_model_major(n_models) ==
    IF turn_num < args.max_turns
    THEN <<turn_num + 1, model_idx>>
    ELSE IF model_idx < n_models THEN <<1, model_idx + 1>> ELSE <<turn_num + 1, 1>>

\* the loop variables after the iteration of the inner loop at <<turn_num,
\* model_idx>>: for turn_num in range(1, max_turns + 1): for model in models
NextIteration(n_models) ==
    IF model_idx < n_models
    THEN <<turn_num, model_idx + 1>>
    ELSE <<turn_num + 1, 1>>

\* the body of the inner loop from "Build user message" on (lines 216-238 and
\* 278-300)
TakeTurn(model, is_adversary, is_final_turn, system_prompt, n_models, outcome) ==
    LET user_message == _build_user_message(args.article_text, turn_num,
                                            args.context_strategy, conversation_history)
        called == _call_model(model, args.clients, outcome)
        metrics == _parse_dual_response(called.response, is_final_turn, args.adversarial)
        turn == ConversationTurn(turn_num, model, is_adversary, called.response, metrics)
    IN /\ model_calls' = Append(model_calls,
                                [model |-> model, system_prompt |-> system_prompt,
                                 user_message |-> user_message,
                                 backend |-> called.backend])
       /\ IF called.exception # "None"
          THEN /\ exception' = called.exception
               /\ engine_pc' = "raised"
               /\ UNCHANGED <<turns, conversation_history, turn_num, model_idx>>
          ELSE /\ turns' = Append(turns, turn)
               /\ conversation_history' =
                      Append(conversation_history, <<Seg(model, "")>> \o called.response)
               /\ turn_num' = NextIteration(n_models)[1]
               /\ model_idx' = NextIteration(n_models)[2]
               /\ UNCHANGED <<exception, engine_pc>>

\* one iteration of the inner loop of _run_dual_conversation
_run_dual_conversation(outcome) ==
    /\ engine_pc = "dual"
    /\ turn_num <= args.max_turns
    /\ LET models == Slice(args.models, 2)
           model1 == models[1]
           model2 == models[2]
           adversary_model == IF args.adversarial THEN model2 ELSE NoModel
           model == models[model_idx]
           is_final_turn == turn_num = args.max_turns
           is_adversary == model = adversary_model
           partner == IF model = model1 THEN model2 ELSE model1
       IN TakeTurn(model, is_adversary, is_final_turn,
                   _build_dual_system_prompt(model, partner, is_adversary,
                                             is_final_turn, args.adversarial),
                   2, outcome)
    /\ UNCHANGED <<args, result>>
    /\ UNCHANGED <<queue_vars, parsed>>

\* one iteration of the inner loop of _run_consensus_conversation; partners[1]
\* of line 355 raises IndexError when fewer than two partners are left
_run_consensus_conversation(outcome) ==
    /\ engine_pc = "consensus"
    /\ turn_num <= args.max_turns
    /\ LET models == Slice(args.models, 3)
           adversary_model == IF args.adversarial THEN models[1] ELSE NoModel
           model == models[model_idx]
           is_final_turn == turn_num = args.max_turns
           is_adversary == model = adversary_model
           partners == SelectSeq(models, LAMBDA m : m # model)
       IN /\ models # <<>>
          /\ IF Len(partners) < 2
             THEN /\ exception' = "IndexError"
                  /\ engine_pc' = "raised"
                  /\ UNCHANGED <<turns, conversation_history, turn_num, model_idx,
                                 model_calls>>
             ELSE TakeTurn(model, is_adversary, is_final_turn,
                           _build_consensus_system_prompt(model, partners, is_adversary,
                                                          is_final_turn, args.adversarial),
                           Len(models), outcome)
    /\ UNCHANGED <<args, result>>
    /\ UNCHANGED <<queue_vars, parsed>>

\* the end of the outer loop of _run_dual_conversation: lines 240-252
_run_dual_conversation_returns ==
    /\ engine_pc = "dual"
    /\ turn_num > args.max_turns
    /\ LET final == _calculate_dual_final_metrics(turns)
       IN result' = ConversationResult("dual", Slice(args.models, 2), args.adversarial,
                                       turns, final.final_metrics,
                                       final.agreement_scores, final.influence_scores)
    /\ engine_pc' = "returned"
    /\ UNCHANGED <<args, exception, turn_num, model_idx, turns, conversation_history,
                   model_calls>>
    /\ UNCHANGED <<queue_vars, parsed>>

\* the end of the outer loop of _run_consensus_conversation: lines 302-314; with
\* an empty model list no round has an iteration
_run_consensus_conversation_returns ==
    /\ engine_pc = "consensus"
    /\ turn_num > args.max_turns \/ args.models = <<>>
    /\ LET final == _calculate_consensus_final_metrics(turns)
       IN result' = ConversationResult("consensus", Slice(args.models, 3),
                                       args.adversarial, turns, final.final_metrics,
                                       final.agreement_scores, final.influence_scores)
    /\ engine_pc' = "returned"
    /\ UNCHANGED <<args, exception, turn_num, model_idx, turns, conversation_history,
                   model_calls>>
    /\ UNCHANGED <<queue_vars, parsed>>

\* --------------------------------------------- conversation specifications
Articles == {<<Seg("", "X")>>}
AllClients == KnownModels \cup {UnknownModel}
\* the lists of k models drawn from ids, repetitions included
Lists(ids, k) == [1..k -> ids]

\* Dual and consensus conversations of 0..MaxTurns rounds between two or three of
\* three known models, a model possibly listed twice, every client configured
\* and every backend answering.
NextConversation ==
    \/ \E article_text \in Articles,
          models \in Lists({"claude", "openai", "gemini"}, 2)
                         \cup Lists({"claude", "openai", "gemini"}, 3),
          experiment_type \in {"dual", "consensus"},
          adversarial \in BOOLEAN,
          context_strategy \in ContextStrategies,
          max_turns \in 0..MaxTurns :
              run_conversation(article_text, models, experiment_type, adversarial,
                               context_strategy, max_turns, AllClients)
    \/ _run_dual_conversation(Returns(Reply))
    \/ _run_consensus_conversation(Returns(Reply))
    \/ _run_dual_conversation_returns
    \/ _run_consensus_conversation_returns

SpecConversation == Init /\ [][NextConversation]_vars

\* Conversations of every experiment type, an unknown one included, of at most
\* MaxFailureRounds rounds, with a model that has no branch in _call_model, with
\* clients missing, and with backends that answer or raise.
Outcomes == {Returns(Reply), Raises(ConnectionError), Raises(KeyInvalid)}

NextBackend ==
    \/ \E article_text \in Articles,
          models \in {<<"claude", "openai", "gemini">>, <<"openai", "claude">>,
                      <<UnknownModel, "claude", "gemini">>},
          experiment_type \in ExperimentTypes \cup {"debate"},
          adversarial \in BOOLEAN,
          max_turns \in 1..MaxFailureRounds,
          clients \in {AllClients, KnownModels, KnownModels \ {"openai"}} :
              run_conversation(article_text, models, experiment_type, adversarial,
                               "first_turn_only", max_turns, clients)
    \/ \E outcome \in Outcomes : _run_single_model(outcome)
    \/ \E outcome \in Outcomes : _run_dual_conversation(outcome)
    \/ \E outcome \in Outcomes : _run_consensus_conversation(outcome)
    \/ _run_dual_conversation_returns
    \/ _run_consensus_conversation_returns

SpecBackend == Init /\ [][NextBackend]_vars

\* Single-model conversations: any list of up to MaxModels models, any of the
\* other arguments, clients configured or missing, the backend answering in or
\* out of format or raising.
NextSingle ==
    \/ \E article_text \in Articles,
          models \in UNION {Lists({"claude", "gemini", UnknownModel}, k) : k \in 1..MaxModels},
          adversarial \in BOOLEAN,
          context_strategy \in ContextStrategies,
          max_turns \in 0..MaxTurns,
          clients \in {AllClients, KnownModels, KnownModels \ {"claude"}} :
              run_conversation(article_text, models, "single", adversarial,
                               context_strategy, max_turns, clients)
    \/ \E outcome \in Outcomes \cup {Returns(Prose)} : _run_single_model(outcome)

SpecSingle == Init /\ [][NextSingle]_vars

\* a direct call of _extract_metrics by the code that uses the engine
extract_metrics(response, expected_fields) ==
    /\ parsed' = [response |-> response, expected_fields |-> expected_fields,
                  metrics |-> _extract_metrics(response, expected_fields)]
    /\ UNCHANGED <<args, engine_pc, exception, turn_num, model_idx, turns,
                   conversation_history, model_calls, result>>
    /\ UNCHANGED queue_vars

\* the lines a response is made of: lines in format with a number, a decimal,
\* a word or a phrase as value, a line with another label, a line of prose
ResponseLines ==
    {Seg("Confidence", "87"), Seg("Classification", "1"), Seg("Reason", "looks legit"),
     Seg("classification", "1.0"), Seg("Confidence", "high"), Seg("Irrelevant", "5"),
     Seg("", "I cannot assess this article")}
FieldLists ==
    {<<"classification", "confidence", "reason">>, <<"relevant", "informative", "reason">>,
     ExpectedFields(FALSE, FALSE), ExpectedFields(FALSE, TRUE)}

\* Metric extraction alone, one call in a behaviour: any response of up to
\* MaxLines lines, any of the field lists.
NextExtract ==
    /\ parsed = NoParse
    /\ \E response \in UNION {Lists(ResponseLines, k) : k \in 0..MaxLines},
          expected_fields \in FieldLists :
             extract_metrics(response, expected_fields)

SpecExtract == Init /\ [][NextExtract]_vars

\* ================================================================ claims
Terminal == {"completed", "failed", "cancelled"}
PendingInList == {j \in Range(experiments) : jobs[j].status = "pending"}
RunningJobs == {j \in DOMAIN jobs : jobs[j].status = "running"}

\* a's (priority, created_at) pair is not greater than b's
KeyNotGreater(a, b) ==
    \/ jobs[a].priority < jobs[b].priority
    \/ /\ jobs[a].priority = jobs[b].priority
       /\ jobs[a].created_at <= jobs[b].created_at

\* C1: in every reachable state the number of jobs with status Running, and the
\* size of the running set, are at most max_concurrent.
C1_RunningWithinMaxConcurrent ==
    /\ Cardinality(running_experiments) <= max_concurrent
    /\ Cardinality(RunningJobs) <= max_concurrent

\* C2: a job whose status is Completed, Failed or Cancelled keeps that status in
\* every later step.
C2_TerminalStatusIsFinal ==
    [][\A j \in DOMAIN jobs :
          jobs[j].status \in Terminal => jobs'[j].status = jobs[j].status]_vars

\* C3: batch-summary generation runs for a batch only at a completion that makes
\* completed + failed reach total, and never a second time.
C3_SummaryExactlyOnce ==
    [][\A b \in DOMAIN batches :
          summaries'[b] # summaries[b] =>
              /\ summaries[b] = 0
              /\ summaries'[b] = 1
              /\ BatchDone(batches'[b])]_vars

\* C4: when the execution thread of a job that remove_experiment cancelled
\* finishes, the batches' counters, the summaries, the job list and the running
\* set stay as they were.
C4_CancelledCompletionIsNoop ==
    [][\A j \in DOMAIN jobs :
          (jobs[j].status = "cancelled" /\ threads'[j] < threads[j]) =>
              UNCHANGED <<batches, summaries, experiments, running_experiments>>]_vars

\* C5: get_next_pending_experiment returns none exactly when no job of the list
\* is Pending; otherwise it returns a Pending job of the list whose
\* (priority, created_at) pair is minimal among the Pending jobs; the scheduler's
\* call of it stores that result and changes no queue state.
C5_Selection ==
    LET r == get_next_pending_experiment
    IN /\ (r = None) <=> (PendingInList = {})
       /\ r # None => /\ r \in PendingInList
                      /\ \A k \in PendingInList : KeyNotGreater(r, k)

C5_NextPendingIsMinimal ==
    /\ []C5_Selection
    /\ [][\A w \in Workers :
             worker_select(w) =>
                 /\ workers'[w].next_experiment \in PendingInList \cup {None}
                 /\ (workers'[w].next_experiment = None) <=> (PendingInList = {})
                 /\ UNCHANGED <<experiments, jobs, batches, running_experiments, status,
                                threads, summaries>>]_vars

\* C5 witness: a scheduler holds a selected job that is not the first Pending
\* job of the list, because an earlier Pending job has a larger priority number.
C5_Witness ==
    \E w \in Workers :
        /\ workers[w].pc = "start"
        /\ workers[w].next_experiment \in PendingInList
        /\ \E k \in PendingInList :
              /\ k < workers[w].next_experiment
              /\ jobs[k].priority > jobs[workers[w].next_experiment].priority

\* C6: whenever a job goes from Pending to Running, no other job of the list that
\* is Pending at that moment has a smaller priority number, or the same priority
\* and an earlier creation time.
C6_DispatchInPriorityOrder ==
    [][\A j \in DOMAIN jobs :
          (jobs[j].status = "pending" /\ jobs'[j].status = "running") =>
              \A k \in PendingInList \ {j} : KeyNotGreater(j, k)]_vars

\* C7: for every registered batch, get_status() is 'completed_with_failures'
\* exactly when failed > 0 and completed + failed = total, and 'completed'
\* exactly when completed = total and failed = 0.
C7_BatchStatusIff ==
    \A b \in DOMAIN batches :
        /\ (get_status(batches[b]) = "completed_with_failures") <=>
               (/\ batches[b].failed_experiments > 0
                /\ batches[b].completed_experiments + batches[b].failed_experiments
                       = batches[b].total_experiments)
        /\ (get_status(batches[b]) = "completed") <=>
               (/\ batches[b].completed_experiments = batches[b].total_experiments
                /\ batches[b].failed_experiments = 0)

\* C8: remove_experiment with an id that is not in the job list returns false and
\* leaves the job list, the job objects, the batches, the running set, the
\* execution threads, the schedulers and the queue status unchanged.
C8_RemoveMissingMutatesNothing ==
    [][\A id \in JobIds :
          (remove_experiment(id) /\ id \notin Range(experiments)) =>
              /\ last_remove'.ok = FALSE
              /\ UNCHANGED <<experiments, jobs, batches, running_experiments, status,
                             threads, workers, worker_thread, summaries,
                             n_removed>>]_vars

\* C8 witness: the latest remove_experiment call returned false while the queue
\* held jobs, one of them in the running set.
C8_Witness ==
    /\ last_remove.called
    /\ ~last_remove.ok
    /\ experiments # <<>>
    /\ running_experiments # {}

\* C9: when the Runner raises for a job, the job becomes Failed with the
\* exception's message as error_message and leaves the running set, its batch's
\* failed counter grows by exactly one while the other counters and batches stay,
\* the batch summary is generated exactly when completed + failed >= total now
\* holds, and every other job is untouched.
C9_RunnerFailure ==
    [][\A id \in DOMAIN jobs : \A msg \in ErrMsgs :
          runner_raises(id, msg) =>
              /\ jobs'[id].status = "failed"
              /\ jobs'[id].error_message = msg
              /\ id \notin running_experiments'
              /\ running_experiments' = running_experiments \ {id}
              /\ experiments' = experiments
              /\ \A k \in DOMAIN jobs \ {id} : jobs'[k] = jobs[k]
              /\ LET b == jobs[id].batch_id
                 IN IF b \in DOMAIN batches
                    THEN /\ batches'[b].failed_experiments
                                = batches[b].failed_experiments + 1
                         /\ batches'[b].completed_experiments
                                = batches[b].completed_experiments
                         /\ batches'[b].total_experiments = batches[b].total_experiments
                         /\ \A c \in DOMAIN batches \ {b} : batches'[c] = batches[c]
                         /\ summaries'[b] =
                                IF batches[b].completed_experiments
                                       + batches[b].failed_experiments + 1
                                   >= batches[b].total_experiments
                                THEN summaries[b] + 1
                                ELSE summaries[b]
                    ELSE UNCHANGED <<batches, summaries>>]_vars

\* C9 witness: the only job of a batch failed with the Runner's message and left
\* the running set; the batch counts that one failure, which completed the batch,
\* so its summary was generated; a job outside the batch is still running.
C9_Witness ==
    \E id \in DOMAIN jobs :
        /\ jobs[id].status = "failed"
        /\ jobs[id].error_message \in ErrMsgs
        /\ id \notin running_experiments
        /\ jobs[id].batch_id \in DOMAIN batches
        /\ batches[jobs[id].batch_id].failed_experiments = 1
        /\ batches[jobs[id].batch_id].completed_experiments = 0
        /\ batches[jobs[id].batch_id].total_experiments = 1
        /\ summaries[jobs[id].batch_id] = 1
        /\ \E k \in running_experiments : k # id /\ jobs[k].status = "running"

\* C10: the number of jobs the queue holds (in the job list or in the running
\* set) whose status is Pending or Running is at most the number of jobs added
\* minus the number of jobs successfully removed.
C10_ActiveWithinAddedMinusRemoved ==
    Cardinality({j \in DOMAIN jobs :
                    /\ j \in Range(experiments) \cup running_experiments
                    /\ jobs[j].status \in {"pending", "running"}})
        <= Len(jobs) - n_removed

\* C11: while the queue status is Paused (between the return of pause_queue and
\* the next resume_queue or start_queue) no job goes from Pending to Running.
C11_NoStartWhilePaused ==
    [][(status = "paused" /\ status' = "paused") =>
          \A j \in DOMAIN jobs :
              jobs[j].status = "pending" => jobs'[j].status # "running"]_vars

\* a scheduler loop that is alive and has not been told to exit: it is past the
\* `while` test, or it will pass it because the status is not Stopped
LiveLoops ==
    {w \in Workers : IsAlive(w) /\ (workers[w].pc = "loop" => status # "stopped")}

\* C12: at most one scheduler loop is live and able to dispatch jobs at any time.
C12_SingleScheduler == Cardinality(LiveLoops) <= 1

\* C18: no job is Completed and carries an error message; a Failed job carries one.
C18_CompletedHasNoError ==
    \A j \in DOMAIN jobs :
        /\ jobs[j].status = "completed" => jobs[j].error_message = NoError
        /\ jobs[j].status = "failed" => jobs[j].error_message # NoError

\* C20: for every registered batch completed + failed <= total.
C20_CountersWithinTotal ==
    \A b \in DOMAIN batches :
        batches[b].completed_experiments + batches[b].failed_experiments
            <= batches[b].total_experiments

\* C13: a stop_queue call made from any queue status leaves the status Stopped
\* and changes no job, batch, running-set or thread state; a stop_queue call made
\* right after another one finds the status Stopped and leaves the queue status
\* and the scheduler threads as they are.
C13_StopQueueIdempotent ==
    /\ [](stops >= 1 => status = "stopped")
    /\ [][stop_queue =>
             /\ status' = "stopped"
             /\ UNCHANGED <<experiments, jobs, batches, running_experiments, threads,
                            runs, summaries, summary_file>>
             /\ stops >= 1 => UNCHANGED <<status, workers, worker_thread>>]_vars

\* C13 witness: stop_queue was called twice in a row while a job was Running
\* inside the Runner and a scheduler thread was still alive.
C13_Witness ==
    /\ stops = 2
    /\ status = "stopped"
    /\ \E id \in DOMAIN jobs : jobs[id].status = "running" /\ threads[id] > 0
    /\ \E w \in Workers : IsAlive(w)

\* C14: a scheduler loop ends only at a `while` test that finds the status
\* Stopped; an exception raised inside an iteration, while selecting or starting
\* a job, leaves the loop alive and back at the `while` test.
C14_LoopEndsOnlyWhenStopped ==
    [][\A w \in Workers :
          /\ (IsAlive(w) /\ ~IsAlive(w)') => (status = "stopped" /\ worker_check(w))
          /\ worker_raises(w) => (workers'[w].pc = "loop" /\ UNCHANGED status)]_vars

\* C14 witness: _start_experiment raised after it marked a job Running, so the
\* job is in the running set without a thread, and a scheduler loop is alive at
\* the `while` test with the status Running.
C14_Witness ==
    /\ status = "running"
    /\ \E w \in Workers : workers[w].pc = "loop"
    /\ \E j \in running_experiments : jobs[j].status = "running" /\ threads[j] = 0

SnapshotStatus(snap) ==
    IF snap.failed_experiments > 0
       /\ snap.completed_experiments + snap.failed_experiments = snap.total_experiments
    THEN "completed_with_failures"
    ELSE IF snap.completed_experiments = snap.total_experiments
    THEN "completed"
    ELSE IF \E i \in DOMAIN snap.experiments : snap.experiments[i] = "running"
    THEN "running"
    ELSE IF \E i \in DOMAIN snap.experiments : snap.experiments[i] = "pending"
    THEN "pending"
    ELSE "unknown"

\* C16: the dict that get_batch_status returns reflects one single state of the
\* batch: its 'status' and 'progress' entries are the ones that its own counters
\* and job entries give.
C16_SnapshotConsistent ==
    api_pc = "batch_return" =>
        /\ batch_snapshot.status = SnapshotStatus(batch_snapshot)
        /\ batch_snapshot.progress = get_progress(batch_snapshot)

\* C17: a job's progress lies in 0..100, and while the job is Running a stored
\* progress value is never smaller than the one stored before.
C17_ProgressMonotone ==
    /\ [](\A j \in DOMAIN jobs : jobs[j].progress \in 0..100)
    /\ [][\A j \in DOMAIN jobs :
             (jobs[j].status = "running" /\ jobs'[j].status = "running") =>
                 jobs'[j].progress >= jobs[j].progress]_vars

\* C19: when a job's Runner call returns, the job ends Completed and leaves the
\* running set, and its batch's completed counter grows by exactly one while the
\* failed counter and the total stay, whether or not the batch summary that this
\* completion triggers is written or fails.
C19_SummaryFailureSwallowed ==
    [][\A id \in DOMAIN jobs :
          runner_returns(id) =>
              /\ jobs'[id].status = "completed"
              /\ jobs'[id].error_message = jobs[id].error_message
              /\ running_experiments' = running_experiments \ {id}
              /\ LET b == jobs[id].batch_id
                 IN IF b \in DOMAIN batches
                    THEN /\ batches'[b].completed_experiments
                                = batches[b].completed_experiments + 1
                         /\ batches'[b].failed_experiments = batches[b].failed_experiments
                         /\ batches'[b].total_experiments = batches[b].total_experiments
                    ELSE UNCHANGED batches]_vars

\* C19 witness: summary generation ran for a batch and failed to write its file;
\* the job whose completion triggered it is Completed without an error message
\* and out of the running set, and the batch counts it once.
C19_Witness ==
    \E id \in DOMAIN jobs :
        /\ jobs[id].batch_id \in DOMAIN batches
        /\ summaries[jobs[id].batch_id] = 1
        /\ ~summary_file[jobs[id].batch_id]
        /\ jobs[id].status = "completed"
        /\ jobs[id].error_message = NoError
        /\ id \notin running_experiments
        /\ batches[jobs[id].batch_id].completed_experiments = 1
        /\ batches[jobs[id].batch_id].failed_experiments = 0
        /\ batches[jobs[id].batch_id].total_experiments = 1

\* Jobs submitted, cancelled and run as in SpecDefault, with scheduler iterations
\* that end in an exception, every execution thread that exists eventually
\* leaving its Runner call and every scheduler loop eventually taking its next
\* step.
NextTermination ==
    \/ NextDefault
    \/ \E w \in Workers : worker_raises(w)

SpecTermination ==
    /\ Init
    /\ [][NextTermination]_vars
    /\ \A id \in JobIds :
          WF_vars(runner_returns(id) \/ \E msg \in ErrMsgs : runner_raises(id, msg))
    /\ \A w \in Workers :
          WF_vars(worker_check(w) \/ worker_select(w) \/ _start_experiment(w))

\* C21: every job that becomes Running is eventually in one of Completed, Failed
\* and Cancelled and out of the running set, and the terminal status it reached
\* is the only one it ever has: it never changes afterwards.
C21_RunningTerminatesOnce ==
    /\ \A j \in JobIds :
          (j \in DOMAIN jobs /\ jobs[j].status = "running")
              ~> (/\ j \in DOMAIN jobs
                  /\ jobs[j].status \in Terminal
                  /\ j \notin running_experiments)
    /\ [][\A j \in DOMAIN jobs :
             jobs[j].status \in Terminal => jobs'[j].status = jobs[j].status]_vars

\* Batches of any size registered, jobs submitted into registered batches or
\* with a batch id that names no batch, and jobs cancelled, in any order, while
\* the scheduler and the jobs run.
NextBatches ==
    \/ \E b \in {NoBatch} \cup BatchIds, tick \in Later :
          add_experiment(b, DefaultPriority, tick)
    \/ \E ps \in DefaultSeqs : \E ticks \in [1..Len(ps) -> Later] : add_batch(ps, ticks)
    \/ \E id \in JobIds : remove_experiment(id)
    \/ autostart
    \/ Threads

SpecBatches == Init /\ [][NextBatches]_vars

\* C22: every registered batch's total equals the length of its job list and
\* every job of a batch's list is in the queue's job list, in every reachable
\* state; an add_experiment call whose job names no registered batch leaves
\* every batch as it was.
C22_BatchListsConsistent ==
    /\ [](\A b \in DOMAIN batches :
             /\ batches[b].total_experiments = Len(batches[b].experiments)
             /\ Range(batches[b].experiments) \subseteq Range(experiments))
    /\ [][\A p \in Priorities \cup {DefaultPriority}, tick \in Ticks :
             add_experiment(NoBatch, p, tick) => UNCHANGED batches]_vars

\* C22 witness: a job of a registered batch was cancelled and is gone from the
\* batch's list and from the queue's list, while the batch still lists another
\* job.
C22_Witness ==
    \E b \in DOMAIN batches :
        /\ n_removed >= 1
        /\ batches[b].experiments # <<>>
        /\ \E j \in DOMAIN jobs :
              /\ jobs[j].batch_id = b
              /\ j \notin Range(batches[b].experiments)
              /\ j \notin Range(experiments)

\* the number of models a dual or consensus conversation is run with, and the
\* models run_conversation hands on
RequiredModels == IF args.experiment_type = "dual" THEN 2 ELSE 3
Participants == Slice(args.models, RequiredModels)
Distinct(s) == \A i, j \in DOMAIN s : i # j => s[i] # s[j]
\* a dual conversation between two listed models, or a consensus conversation
\* among three different ones
ProperConversation ==
    \/ args.experiment_type = "dual" /\ Len(Participants) = 2
    \/ args.experiment_type = "consensus" /\ Len(Participants) = 3 /\ Distinct(Participants)

DefaultMetrics(metrics, response) ==
    [field \in DOMAIN metrics |->
        IF field = "full_response"
        THEN response
        ELSE IF field = "reason" THEN NotFound ELSE 0]

\* C24: in a dual or consensus conversation whose models all have a client and
\* a branch in _call_model, whatever calls the backends fail, no exception
\* reaches the caller, the result holds models x max_turns turns, and the turn
\* of every failed call has a response that begins with 'ERROR:' and metrics
\* that are all defaults.
C24_BackendFailureInBand ==
    (/\ ProperConversation
     /\ Range(Participants) \subseteq args.clients \cap KnownModels) =>
        /\ engine_pc # "raised"
        /\ engine_pc = "returned" =>
              Len(result.turns) = RequiredModels * args.max_turns
        /\ \A i \in DOMAIN turns :
              model_calls[i].backend = "raised" =>
                  /\ turns[i].response[1].label = "ERROR"
                  /\ turns[i].metrics = DefaultMetrics(turns[i].metrics, turns[i].response)

\* C25: a run_conversation call with an experiment type other than single, dual
\* and consensus raises ValueError before any model call, and a _call_model
\* invocation for a model identifier without a branch in _call_model ends the
\* conversation with an exception raised to the caller.
C25_ConfigurationErrorsRaise ==
    /\ (engine_pc # "idle" /\ args.experiment_type \notin ExperimentTypes) =>
          /\ engine_pc = "raised"
          /\ exception = "ValueError"
          /\ model_calls = <<>>
    /\ \A i \in DOMAIN model_calls :
          model_calls[i].model \notin KnownModels =>
              /\ engine_pc = "raised"
              /\ i = Len(model_calls)

\* part occurs in text as a contiguous piece
Contains(text, part) ==
    \E k \in 0..(Len(text) - Len(part)) : SubSeq(text, k + 1, k + Len(part)) = part

\* the position in the model list of the participant that made the i-th turn
Position(i) == ((i - 1) % RequiredModels) + 1
AdversaryPositions == {Position(i) : i \in {k \in DOMAIN turns : turns[k].is_adversary}}

\* C26: in a dual or consensus conversation of any model list the secret
\* instruction block is in a turn's system prompt exactly when the turn is the
\* adversary's; in adversarial mode, once a round is complete, exactly one
\* participant is the adversary, all of its turns are adversarial and no turn of
\* another participant is; without adversarial mode no turn is adversarial.
C26_SingleAdversary ==
    args.experiment_type \in {"dual", "consensus"} =>
        /\ \A i \in DOMAIN turns :
              turns[i].is_adversary
                  <=> Contains(model_calls[i].system_prompt,
                               system_prompts.adversarial_secret_instructions)
        /\ (args.adversarial /\ Len(turns) >= RequiredModels) =>
              /\ Cardinality(AdversaryPositions) = 1
              /\ \A i \in DOMAIN turns :
                    turns[i].is_adversary <=> Position(i) \in AdversaryPositions
        /\ ~args.adversarial => \A i \in DOMAIN turns : ~turns[i].is_adversary

\* the prompt asks for the field: it holds a "Label: [what to put]" line for it
Requests(prompt, field_label) ==
    \E k \in DOMAIN prompt : prompt[k].label = field_label /\ prompt[k].value = "[...]"

\* C27: in a dual or consensus conversation the system prompt of a turn asks
\* for Classification and Reliability when the turn's round is max_turns and
\* for neither of them in an earlier round, and the metrics of the turn were
\* parsed with the final field list in the first case and with the interim
\* list in the second.
C27_FinalSchemaOnLastRound ==
    args.experiment_type \in {"dual", "consensus"} =>
        \A i \in DOMAIN turns :
            LET is_final == turns[i].turn_number = args.max_turns
                prompt == model_calls[i].system_prompt
            IN /\ is_final =>
                     Requests(prompt, "Classification") /\ Requests(prompt, "Reliability")
               /\ ~is_final =>
                     ~Requests(prompt, "Classification") /\ ~Requests(prompt, "Reliability")
               /\ DOMAIN turns[i].metrics \ {"full_response"}
                      = Range(ExpectedFields(is_final, args.adversarial))
               /\ is_final <=> {"classification", "reliability"} \subseteq DOMAIN turns[i].metrics

\* C27 witness: a conversation of several rounds has a turn of round 1 that was
\* asked for and parsed with the interim schema and a turn of the last round
\* that was asked for and parsed with the final one.
C27_Witness ==
    /\ args.experiment_type \in {"dual", "consensus"}
    /\ args.max_turns >= 2
    /\ turns # <<>>
    /\ turns[1].turn_number = 1
    /\ ~Requests(model_calls[1].system_prompt, "Classification")
    /\ "classification" \notin DOMAIN turns[1].metrics
    /\ turns[Len(turns)].turn_number = args.max_turns
    /\ Requests(model_calls[Len(turns)].system_prompt, "Classification")
    /\ "classification" \in DOMAIN turns[Len(turns)].metrics

\* the user message of the i-th call holds the article text
ArticleIn(i) == Contains(model_calls[i].user_message, ArticleBlock(args.article_text))

\* C28: the user message of a turn holds the article text with first_turn_only
\* exactly in round 1, with all_turns in every round, and with
\* first_and_last_turn exactly in rounds 1 and 3, whatever max_turns is.
C28_ArticlePerStrategy ==
    args.experiment_type \in {"dual", "consensus"} =>
        \A i \in DOMAIN turns :
            LET round == turns[i].turn_number
            IN ArticleIn(i) <=>
                  CASE args.context_strategy = "first_turn_only" -> round = 1
                    [] args.context_strategy = "all_turns" -> TRUE
                    [] args.context_strategy = "first_and_last_turn" -> round \in {1, 3}

\* C28 witness: a first_and_last_turn conversation of more than three rounds has
\* reached round 4: the article went out in rounds 1 and 3 and neither in
\* round 2 nor in round 4.
C28_Witness ==
    /\ args.experiment_type \in {"dual", "consensus"}
    /\ args.context_strategy = "first_and_last_turn"
    /\ args.max_turns >= 4
    /\ \E i1, i2, i3, i4 \in DOMAIN turns :
          /\ turns[i1].turn_number = 1 /\ ArticleIn(i1)
          /\ turns[i2].turn_number = 2 /\ ~ArticleIn(i2)
          /\ turns[i3].turn_number = 3 /\ ArticleIn(i3)
          /\ turns[i4].turn_number = 4 /\ ~ArticleIn(i4)

\* the '<model>: <raw response>' entries of the turns before the i-th, joined as
\* _build_user_message joins the history
TranscriptBefore(i) ==
    join([k \in 1..(i - 1) |-> <<Seg(turns[k].model, "")>> \o turns[k].response])

\* C29: in a dual or consensus conversation the user message of every turn
\* after the first one, the later turns of round 1 included, holds the entries
\* of all earlier turns in the order they were produced.
C29_FullTranscript ==
    args.experiment_type \in {"dual", "consensus"} =>
        \A i \in DOMAIN turns :
            i >= 2 => Contains(model_calls[i].user_message, TranscriptBefore(i))

\* C30: a single-model conversation that returns has made exactly one model
\* call, and its result is of type 'single' and holds exactly one turn, of the
\* first listed model, with turn number 1 and not adversarial, whose metrics
\* are the parse of its response and are the result's final metrics.
C30_SingleTurn ==
    args.experiment_type = "single" =>
        /\ Len(model_calls) <= 1
        /\ engine_pc = "returned" =>
              /\ Len(model_calls) = 1
              /\ result.experiment_type = "single"
              /\ ~result.adversarial
              /\ Len(result.turns) = 1
              /\ result.turns[1].turn_number = 1
              /\ ~result.turns[1].is_adversary
              /\ result.turns[1].model = args.models[1]
              /\ result.turns[1].metrics = _parse_single_response(result.turns[1].response)
              /\ result.final_metrics = result.turns[1].metrics

\* C30 witness: a single-model call made with adversarial=True and a list of
\* two models has returned the one turn of the first model, with the metrics
\* parsed from a reply in format.
C30_Witness ==
    /\ args.experiment_type = "single"
    /\ engine_pc = "returned"
    /\ args.adversarial
    /\ Len(args.models) >= 2
    /\ Len(result.turns) = 1
    /\ result.turns[1].model = args.models[1]
    /\ result.turns[1].response = Reply
    /\ result.final_metrics["confidence"] = 80
    /\ result.final_metrics["classification"] = 1

\* the first line of the response that has the form "<Field Name>: <value>" for
\* a field, the field name in any case; 0 when there is none
FieldLine(response, field) ==
    LET lines == {i \in DOMAIN response :
                     /\ response[i].value # ""
                     /\ lower(response[i].label) = lower(title(field))}
    IN IF lines = {} THEN 0 ELSE CHOOSE i \in lines : \A j \in lines : i <= j

\* C31: Metric extraction returns an entry for every expected field. A field
\* present as a "<Field Name>: <value>" line yields, for classification, the
\* value as an integer when it is all digits and 0 otherwise; for a scored
\* field, the first number in the value and 0.0 when there is none; for any
\* other field, the value as text. A field absent from the response yields 0,
\* 0.0 or the not-found placeholder.
C31_ExtractedPerField ==
    parsed # NoParse =>
        /\ Range(parsed.expected_fields) \subseteq DOMAIN parsed.metrics
        /\ \A field \in Range(parsed.expected_fields) :
              LET i == FieldLine(parsed.response, field)
                  value_str == parsed.response[i].value
                  expected ==
                      IF i # 0
                      THEN IF field = "classification"
                           THEN IF isdigit(value_str) THEN FirstNumber(value_str) ELSE 0
                           ELSE IF field \in NumericFields
                           THEN IF FirstNumber(value_str) # NoNumber
                                THEN FirstNumber(value_str)
                                ELSE 0
                           ELSE value_str
                      ELSE IF field = "classification" \/ field \in NumericFields
                           THEN 0
                           ELSE NotFound
              IN parsed.metrics[field] = expected

\* C32: When the Runner returns normally for a dispatched job, one critical
\* section makes the job Completed with progress 100 and takes it out of the
\* running set, so in no state is a job Completed while it is still in the
\* running set or while its progress is below 100.
C32_CompletedIsSettled ==
    \A id \in DOMAIN jobs :
        jobs[id].status = "completed" =>
            /\ id \notin running_experiments
            /\ jobs[id].progress = 100

\* C33: Each job is handed to the Runner at most once: under any interleaving of
\* scheduler loops, start_queue, stop_queue, pause_queue and resume_queue calls
\* and job threads, no job has two execution threads started for it.
C33_OneThreadPerJob ==
    \A id \in DOMAIN threads : threads[id] <= 1

\* C34: A job removed while Pending is never started: the scheduler never puts
\* a job that remove_experiment took out of the job list into the running set,
\* even when the removal falls between the selection of the job and its start;
\* so every job in the running set is also in the job list.
C34_RunningInJobList ==
    running_experiments \subseteq Range(experiments)

\* C35: Whenever the queue status is Running or Paused, a scheduler loop is
\* alive: no sequence of start_queue, stop_queue, pause_queue and resume_queue
\* calls reaches a state where the status is Running or Paused and no loop
\* exists.
C35_ActiveStatusHasLoop ==
    status \in {"running", "paused"} => \E w \in Workers : IsAlive(w)

\* a run_experiment thread of job j reports a percentage in this step
Reports(j) ==
    /\ Len(runs'[j]) = Len(runs[j])
    /\ \E k \in 1..Len(runs[j]) : runs'[j][k].sent # runs[j][k].sent

\* C36: Progress reports stay with their job: when several jobs run at once
\* through the one shared Runner, a step that changes job J's stored progress is
\* a report by J's own thread or J's completion, and the progress of a job that
\* is Completed is not written again.
C36_ProgressStaysWithJob ==
    [][\A j \in DOMAIN jobs :
          jobs'[j].progress # jobs[j].progress =>
              /\ jobs[j].status # "completed"
              /\ Reports(j) \/ jobs'[j].status = "completed"]_vars

\* The lock made visible in the job threads: jobs submitted one per call, alone
\* or as a one-job batch, and cancelled, while one
\* scheduler loop runs; a job's thread that is back from the Runner acquires the
\* lock, then runs its block and releases it. A thread that holds the lock
\* eventually takes its next step, and a scheduler loop that waits for the lock
\* in get_next_pending_experiment eventually gets it when it is free again and
\* again.
NextLocking ==
    \/ \E tick \in Later : add_experiment(NoBatch, DefaultPriority, tick)
    \/ \E tick \in Later : add_batch(<<DefaultPriority>>, <<tick>>)
    \/ \E id \in JobIds : remove_experiment(id)
    \/ autostart
    \/ \E w \in Workers : worker_check(w)
    \/ \E w \in Workers : worker_select(w)
    \/ \E w \in Workers : _start_experiment(w)
    \/ \E id \in JobIds : run_experiment_acquire(id)
    \/ \E id \in JobIds : run_experiment_try(id)
    \/ \E id \in JobIds, msg \in ErrMsgs : run_experiment_except(id, msg)

SpecLocking ==
    /\ Init
    /\ [][NextLocking]_vars
    /\ \A id \in JobIds :
          WF_vars(run_experiment_try(id) \/ \E msg \in ErrMsgs : run_experiment_except(id, msg))
    /\ \A w \in Workers : SF_vars(worker_select(w))

\* the step with which the thread of job id leaves its `with self._lock:` block
Releases(id) ==
    run_experiment_try(id) \/ \E msg \in ErrMsgs : run_experiment_except(id, msg)

SpecStarvation ==
    /\ Init
    /\ [][NextLifecycle]_vars
    /\ \A id \in JobIds :
          WF_vars(runner_returns(id) \/ \E msg \in ErrMsgs : runner_raises(id, msg))
    /\ \A w \in Workers :
          WF_vars(worker_check(w) \/ worker_select(w) \/ _start_experiment(w))

\* C38: No starvation for a finite workload: if from some point on the queue
\* status stays Running, and every Runner call eventually returns or raises,
\* every submitted job eventually leaves Pending and is started.
C38_NoStarvation ==
    <>[](status = "running") =>
        \A j \in JobIds :
            (j \in DOMAIN jobs /\ jobs[j].status = "pending")
                ~> (j \in DOMAIN jobs /\ jobs[j].status # "pending")

\* C39: A finished batch always gets its summary: whenever a batch with total > 0
\* has completed + failed >= total and none of its jobs is Pending or Running, a
\* batch summary has been generated for it, also when the batch became finished
\* because remove_experiment took out its last outstanding job.
C39_FinishedBatchHasSummary ==
    \A b \in DOMAIN batches :
        (/\ batches[b].total_experiments > 0
         /\ BatchDone(batches[b])
         /\ \A j \in Range(batches[b].experiments) :
               jobs[j].status \notin {"pending", "running"})
            => summaries[b] >= 1

\* the labels of the "Label: [what to put]" lines of a prompt
RequestedLabels(prompt) ==
    {prompt[k].label : k \in {n \in DOMAIN prompt : prompt[n].value = "[...]"}}

\* C40: On every turn of a dual or consensus conversation the parse schema
\* matches the requested format: the fields the turn's system prompt asks the
\* model to output are the expected fields the parser extracts for that turn,
\* on final and interim rounds, with and without adversarial mode, for the
\* adversary and for the other models.
C40_SchemaMatchesFormat ==
    args.experiment_type \in {"dual", "consensus"} =>
        \A i \in DOMAIN turns :
            RequestedLabels(model_calls[i].system_prompt)
                = {title(field) : field \in DOMAIN turns[i].metrics \ {"full_response"}}

====
